---------------------------- MODULE Spec2Model ----------------------------
(***************************************************************************)
(* A model of the GopherJS name allocator (compiler/utils.go) and of the   *)
(* JavaScript value bridge of the prelude ($externalize / $internalize).   *)
(*                                                                         *)
(* Strings are sequences of bytes (numbers 0..255), as Go strings are, so  *)
(* that escaping, suffixing and UTF-8/UTF-16 conversion are computed and   *)
(* not assumed.                                                            *)
(***************************************************************************)
EXTENDS Integers, Sequences, FiniteSets, TLC

VARIABLES
    minify,        \* pkgCtx.minify
    parent,        \* funcContext.parent, per context (0 is nil)
    instance,      \* funcContext.instance, per context
    allVars,       \* funcContext.allVars, per context: name -> count
    localVars,     \* funcContext.localVars, per context: sequence of names
    objectNames,   \* funcContext.objectNames, per context: object -> name
    escapingVars,  \* pkgCtx.escapingVars
    pkgVars,       \* pkgCtx.pkgVars: package path -> variable name
    dceDeps,       \* the dependency edges recorded through DeclareDCEDep
    instanceIDs,   \* pkgCtx.instanceSet: instance -> ID
    anonTypes,     \* pkgCtx.anonTypes
    anonTypeMap,   \* pkgCtx.anonTypeMap: type -> index into anonTypes
    returnedPkg,   \* history: per context, the names its module-level allocations returned
    requested,     \* history: <<context, proposed name>> -> number of requests so far
    named,         \* history: <<context, object or instance>> -> the names returned for it
    call,          \* history: the last operation, its arguments and its result
    errList,       \* pkgCtx.errList: the diagnostics accumulated in this run
    goVal,         \* bridge: the compiled value handed to $externalize
    hostVal,       \* bridge: the host value, handed to or made by the bridge
    hostKind,      \* bridge: the kind of the type descriptor t
    goOut,         \* bridge: the compiled value $internalize made
    hostOut,       \* bridge: the host value $externalize made of a result
    pc             \* bridge: position of the conversion under way

compilerVars == <<minify, parent, instance, allVars, localVars, objectNames,
                  escapingVars, pkgVars, dceDeps, instanceIDs, anonTypes,
                  anonTypeMap, returnedPkg, requested, named, call, errList>>
bridgeVars == <<goVal, hostVal, hostKind, goOut, hostOut, pc>>
vars == <<compilerVars, bridgeVars>>

---------------------------------------------------------------------------
(* Bounds of the model.                                                    *)

\* Contexts of one scope tree (the root included).
MaxContexts == 3
\* Allocations issued in one run of the scope tree.
MaxAllocs == 3
\* Allocations issued in one function context in natural mode.
MaxNatural == 12
\* Allocations issued in one context in minified mode.
MaxMinified == 27
\* Name requests (objectName, instName, typeName, handleEscapingVars) of one run.
MaxCalls == 3
MaxInstContexts == 2

---------------------------------------------------------------------------
(* Byte strings.                                                           *)

Range(s) == {s[i] : i \in DOMAIN s}

\* A Go map read: the zero value for a missing key.
Get(m, k) == IF k \in DOMAIN m THEN m[k] ELSE 0

\* A Go map write.
Put(m, k, v) == [n \in DOMAIN m \cup {k} |-> IF n = k THEN v ELSE m[n]]

IsDigit(c) == c >= 48 /\ c <= 57
IsUpper(c) == c >= 65 /\ c <= 90
IsLower(c) == c >= 97 /\ c <= 122
IsAlnum(c) == IsDigit(c) \/ IsUpper(c) \/ IsLower(c)

\* "0123456789ABCDEF"[d]
UpperHex(d) == IF d < 10 THEN 48 + d ELSE 55 + d

\* url.QueryEscape: letters, digits and - _ . ~ are kept, a space becomes
\* '+', every other byte becomes %XX.
ShouldEscape(c) == ~(IsAlnum(c) \/ c \in {45, 95, 46, 126})

EscapeByte(c) ==
    IF c = 32 THEN <<43>>
    ELSE IF ShouldEscape(c) THEN <<37, UpperHex(c \div 16), UpperHex(c % 16)>>
    ELSE <<c>>

RECURSIVE QueryEscape(_)
QueryEscape(s) ==
    IF s = <<>> THEN <<>> ELSE EscapeByte(Head(s)) \o QueryEscape(Tail(s))

HasPrefix(s, p) == Len(s) >= Len(p) /\ SubSeq(s, 1, Len(p)) = p

\* strings.ReplaceAll for a non-empty old.
RECURSIVE ReplaceAll(_, _, _)
ReplaceAll(s, old, new) ==
    IF s = <<>> THEN <<>>
    ELSE IF HasPrefix(s, old)
         THEN new \o ReplaceAll(SubSeq(s, Len(old) + 1, Len(s)), old, new)
         ELSE <<Head(s)>> \o ReplaceAll(Tail(s), old, new)

\* The middle dot, U+00B7, in UTF-8.
midDot == <<194, 183>>

encodeIdent(name) ==
    ReplaceAll(ReplaceAll(QueryEscape(name), <<37, 67, 50, 37, 66, 55>>, midDot),
               <<37>>, <<36>>)

\* fmt.Sprintf("%d", n) for n >= 0.
RECURSIVE FormatInt(_)
FormatInt(n) ==
    IF n < 10 THEN <<48 + n>> ELSE FormatInt(n \div 10) \o <<48 + (n % 10)>>

---------------------------------------------------------------------------
(* funcContext.newVariable.                                                *)

\* The inner loop of the minified branch: the letters of candidate i.
RECURSIVE MinifiedLetters(_, _, _)
MinifiedLetters(j, offset, name) ==
    LET name2 == <<offset + (j % 26)>> \o name
        j2 == (j \div 26) - 1
    IN  IF j2 = -1 THEN name2 ELSE MinifiedLetters(j2, offset, name2)

MinifiedCandidate(i, pkgLevel) ==
    MinifiedLetters(i, IF pkgLevel THEN 65 ELSE 97, <<>>)

\* The minified branch without its outer loop: candidate i is taken whatever
\* its count.
MinifiedNameNoSkip(tbl, i, pkgLevel) == MinifiedCandidate(i, pkgLevel)

\* The outer loop of the minified branch: the first candidate, from i on,
\* whose count in the allocating context is zero.
RECURSIVE MinifiedName(_, _, _)
MinifiedName(tbl, i, pkgLevel) ==
    IF Get(tbl, MinifiedCandidate(i, pkgLevel)) = 0
    THEN MinifiedCandidate(i, pkgLevel)
    ELSE MinifiedName(tbl, i + 1, pkgLevel)

\* The name whose count is read and written.
BaseName(tbl, name, pkgLevel) ==
    IF minify THEN MinifiedName(tbl, 0, pkgLevel) ELSE encodeIdent(name)

\* varName: the name itself, or name$n for n > 0.
VarName(name, n) == IF n > 0 THEN name \o <<36>> \o FormatInt(n) ELSE name

\* The contexts c2 of the loop `for c2 := fc.parent; c2 != nil; c2 = c2.parent`.
RECURSIVE ParentChain(_, _)
ParentChain(par, c) ==
    IF c = 0 THEN {} ELSE {c} \cup ParentChain(par, par[c])

\* The loop stopping after the immediate parent.
AncestorsParentOnly(fc) == IF parent[fc] = 0 THEN {} ELSE {parent[fc]}

Ancestors(fc) == ParentChain(parent, parent[fc])

\* The count tables after newVariable(name, pkgLevel) in context fc.
AllVarsAfter(tbls, fc, base, n, pkgLevel) ==
    [c \in DOMAIN tbls |->
        IF c = fc \/ (pkgLevel /\ c \in Ancestors(fc))
        THEN Put(tbls[c], base, n + 1)
        ELSE tbls[c]]

\* The local-variable lists after newVariable(name, pkgLevel) in context fc.
LocalVarsAfter(lists, fc, varName, pkgLevel) ==
    IF pkgLevel THEN lists
    ELSE [lists EXCEPT ![fc] = Append(@, varName)]

\* newVariable as a function of the compiler state st (a record with the
\* fields allVars and localVars, among others): the state after the call,
\* and the returned name.
newVariable(st, fc, name, pkgLevel) ==
    LET base == BaseName(st.allVars[fc], name, pkgLevel)
        n == Get(st.allVars[fc], base)
        varName == VarName(base, n)
    IN  [st |-> [st EXCEPT
                    !.allVars = AllVarsAfter(st.allVars, fc, base, n, pkgLevel),
                    !.localVars = LocalVarsAfter(st.localVars, fc, varName, pkgLevel)],
         ret |-> varName,
         base |-> base,
         n |-> n]

---------------------------------------------------------------------------
(* The objects (types.Object) and instances the name requests are about.   *)

\* The package being compiled, and an imported one.
ThisPkg == "main"
OtherPkg == "other"

\* name: the Go name; kind: *types.Var, *types.Func, *types.TypeName;
\* scope: what o.Parent() is (the package scope, a function's scope, or nil
\* as for a method); nest: typeparams.FindNestingFunc(o).
Objects ==
    [v |-> [name |-> <<120>>, kind |-> "var", scope |-> "function",
            pkg |-> ThisPkg, exported |-> FALSE, nest |-> "nil"],
     w |-> [name |-> <<120>>, kind |-> "var", scope |-> "function",
            pkg |-> ThisPkg, exported |-> FALSE, nest |-> "nil"],
     m |-> [name |-> <<120>>, kind |-> "func", scope |-> "none",
            pkg |-> ThisPkg, exported |-> FALSE, nest |-> "nil"],
     G |-> [name |-> <<71>>, kind |-> "func", scope |-> "package",
            pkg |-> ThisPkg, exported |-> TRUE, nest |-> "nil"],
     T |-> [name |-> <<84>>, kind |-> "type", scope |-> "function",
            pkg |-> ThisPkg, exported |-> TRUE, nest |-> "G"],
     F |-> [name |-> <<70>>, kind |-> "func", scope |-> "package",
            pkg |-> ThisPkg, exported |-> TRUE, nest |-> "nil"],
     E |-> [name |-> <<69>>, kind |-> "func", scope |-> "package",
            pkg |-> OtherPkg, exported |-> TRUE, nest |-> "nil"],
     X |-> [name |-> <<88>>, kind |-> "var", scope |-> "package",
            pkg |-> ThisPkg, exported |-> TRUE, nest |-> "nil"],
     N |-> [name |-> <<78>>, kind |-> "type", scope |-> "package",
            pkg |-> ThisPkg, exported |-> TRUE, nest |-> "nil"]]

isVarOrConst(o) == Objects[o].kind \in {"var", "const"}

isPkgLevel(o) == Objects[o].scope = "package" \/ Objects[o].kind = "type"

\* "$pkg", "$packages[\"other\"]", ".", "[0]"
StrPkg == <<36, 112, 107, 103>>
StrPackagesOther ==
    <<36, 112, 97, 99, 107, 97, 103, 101, 115, 91, 34,
      111, 116, 104, 101, 114, 34, 93>>
StrDot == <<46>>
StrIndex0 == <<91, 48, 93>>

pkgVar(pkg) ==
    IF pkg = ThisPkg THEN StrPkg
    ELSE IF pkg \in DOMAIN pkgVars THEN pkgVars[pkg]
    ELSE StrPackagesOther

\* fc.root()
RECURSIVE root(_)
root(fc) == IF parent[fc] = 0 THEN fc ELSE root(parent[fc])

\* DeclareDCEDep(o, tNest, tArgs), called while context fc generates code.
\* anon is 0 for an object of the program.
DeclareDCEDep(st, fc, o, tNest, tArgs) ==
    [st EXCEPT !.dceDeps =
        @ \cup {[from |-> fc, obj |-> o, anon |-> 0, tNest |-> tNest, tArgs |-> tArgs]}]

\* assignedObjectName looking in the context's own table only.
assignedObjectNameOwnOnly(st, fc, o) ==
    IF fc # 0 /\ o \in DOMAIN st.objectNames[fc]
    THEN [name |-> st.objectNames[fc][o], found |-> TRUE]
    ELSE [name |-> <<>>, found |-> FALSE]

\* fc.assignedObjectName(o): the parents are asked first.
RECURSIVE assignedObjectName(_, _, _)
assignedObjectName(st, fc, o) ==
    IF fc = 0 THEN [name |-> <<>>, found |-> FALSE]
    ELSE LET up == assignedObjectName(st, parent[fc], o)
         IN  IF up.found THEN up
             ELSE IF o \in DOMAIN st.objectNames[fc]
                  THEN [name |-> st.objectNames[fc][o], found |-> TRUE]
                  ELSE [name |-> <<>>, found |-> FALSE]

\* The nest type arguments objectName passes to DeclareDCEDep.
NestTArgs(fc, o) ==
    IF Objects[o].nest = instance[fc].Object THEN instance[fc].TArgs ELSE <<>>

\* The context whose objectNames takes a freshly allocated name, with the
\* requesting context's used for every object.
NameHolderAlwaysSelf(fc, pkgLevel) == fc

\* The context whose objectNames takes a freshly allocated name.
NameHolder(fc, pkgLevel) == IF pkgLevel THEN root(fc) ELSE fc

\* fc.objectName(o): the state after the call, the returned expression, the
\* variable name in it, and whether a name was allocated.
objectName(st, fc, o) ==
    LET pl == isPkgLevel(o)
        st1 == IF pl THEN DeclareDCEDep(st, fc, o, NestTArgs(fc, o), <<>>) ELSE st
    IN  IF pl /\ (Objects[o].pkg # ThisPkg \/ (isVarOrConst(o) /\ Objects[o].exported))
        THEN [st |-> st1,
              ret |-> pkgVar(Objects[o].pkg) \o StrDot \o Objects[o].name,
              name |-> <<>>, allocated |-> FALSE]
        ELSE LET a == assignedObjectName(st1, fc, o)
                 r == newVariable(st1, fc, Objects[o].name, pl)
                 st2 == IF a.found THEN st1
                        ELSE [r.st EXCEPT !.objectNames[NameHolder(fc, pl)] =
                                              Put(@, o, r.ret)]
                 name == IF a.found THEN a.name ELSE r.ret
             IN  [st |-> st2,
                  ret |-> IF Objects[o].kind = "var" /\ o \in escapingVars
                          THEN name \o StrIndex0 ELSE name,
                  name |-> name, allocated |-> ~a.found]

\* inst.IsTrivial(): no direct and no inherited type arguments.
IsTrivial(inst) == inst.TArgs = <<>> /\ inst.TNest = <<>>

\* fc.pkgCtx.instanceSet.ID(inst): the registry gives an instance, the first
\* time it is asked for, the next ID of its declaring entity.
instanceID(st, inst) ==
    IF inst \in DOMAIN st.instanceIDs
    THEN [st |-> st, id |-> st.instanceIDs[inst]]
    ELSE LET id == Cardinality({i \in DOMAIN st.instanceIDs : i.Object = inst.Object})
         IN  [st |-> [st EXCEPT !.instanceIDs = Put(@, inst, id)], id |-> id]

\* The names of the type arguments, for the comment in an instance's name.
TypeString == [int |-> <<105, 110, 116>>, string |-> <<115, 116, 114, 105, 110, 103>>]

RECURSIVE JoinTypes(_)
JoinTypes(ts) ==
    IF ts = <<>> THEN <<>>
    ELSE IF Len(ts) = 1 THEN TypeString[ts[1]]
    ELSE TypeString[ts[1]] \o <<44, 32>> \o JoinTypes(Tail(ts))

\* inst.TypeParamsString(" /* ", " */"): the nest arguments and a ';', then
\* the direct arguments.
TypeParamsString(inst) ==
    IF IsTrivial(inst) THEN <<>>
    ELSE <<32, 47, 42, 32>>
         \o (IF inst.TNest = <<>> THEN <<>>
             ELSE JoinTypes(inst.TNest) \o <<59>>
                  \o (IF inst.TArgs = <<>> THEN <<>> ELSE <<32>>))
         \o JoinTypes(inst.TArgs)
         \o <<32, 42, 47>>

\* instName without the dependency on the instance itself.
InstanceDepOmitted(st, fc, inst) == st

\* The dependency instName declares for a non-trivial instance.
InstanceDep(st, fc, inst) == DeclareDCEDep(st, fc, inst.Object, inst.TNest, inst.TArgs)

\* fc.instName(inst)
instName(st, fc, inst) ==
    LET on == objectName(st, fc, inst.Object)
    IN  IF IsTrivial(inst)
        THEN [st |-> on.st, ret |-> on.ret, objName |-> on.ret, id |-> -1]
        ELSE LET reg == instanceID(InstanceDep(on.st, fc, inst), inst)
             IN  [st |-> reg.st,
                  ret |-> on.ret \o <<91>> \o FormatInt(reg.id)
                              \o TypeParamsString(inst) \o <<93>>,
                  objName |-> on.ret, id |-> reg.id]

---------------------------------------------------------------------------
(* Types (types.Type) and their names.  A type is a tuple: <<"Basic", b>>, *)
(* <<"Named", o>>, <<"Slice", elem>>, <<"Pointer", elem>>,                 *)
(* <<"Map", key, elem>>; two types are identical when the tuples are equal. *)

\* strings.ToUpper of the first byte of a lower-case name.
UpperFirst(name) == <<name[1] - 32>> \o Tail(name)

\* strings.ToLower
ToLower(str) == [i \in 1..Len(str) |-> IF IsUpper(str[i]) THEN str[i] + 32 ELSE str[i]]

\* toJavaScriptType(t) for the basic types int and string.
toJavaScriptType(b) == UpperFirst(TypeString[b])

\* "$kind"
StrKind == <<36, 107, 105, 110, 100>>

\* typeKind(ty) of a type that is its own underlying type.
typeKind(ty) ==
    IF ty[1] = "Basic" THEN StrKind \o toJavaScriptType(ty[2])
    ELSE IF ty[1] = "Map" THEN StrKind \o <<77, 97, 112>>
    ELSE IF ty[1] = "Slice" THEN StrKind \o <<83, 108, 105, 99, 101>>
    ELSE StrKind \o <<80, 116, 114>>

\* strings.ToLower(typeKind(ty)[5:]) + "Type"
AnonTypeBase(ty) ==
    ToLower(SubSeq(typeKind(ty), 6, Len(typeKind(ty)))) \o <<84, 121, 112, 101>>

\* The instance typeName builds for the named type of object o: no type
\* arguments, and for a type declared inside a function the type arguments
\* the context's instance gives to that function's type parameters.
NamedInstance(fc, o) ==
    [Object |-> o, TNest |-> IF Objects[o].nest # "nil" THEN instance[fc].TArgs ELSE <<>>,
     TArgs |-> <<>>]

\* The lookup in anonTypeMap that finds nothing.
AnonKnownNever(st, ty) == FALSE

\* fc.pkgCtx.anonTypeMap.At(ty) finds a declaration.
AnonKnown(st, ty) == ty \in DOMAIN st.anonTypeMap

\* The synthesized declaration of an anonymous type depends on nothing but
\* the package: DeclareDCEDep(anonType, nil, nil), for the declaration at
\* index idx of anonTypes.
DeclareAnonDep(st, fc, idx) ==
    [st EXCEPT !.dceDeps =
        @ \cup {[from |-> fc, obj |-> "anonType", anon |-> idx, tNest |-> <<>>,
                 tArgs |-> <<>>]}]

\* The component types of a composite type, in the order initArgs names them.
Components(ty) ==
    IF ty[1] \in {"Slice", "Pointer"} THEN <<ty[2]>>
    ELSE IF ty[1] = "Map" THEN <<ty[2], ty[3]>>
    ELSE <<>>

RECURSIVE typeName(_, _, _), initArgsFrom(_, _, _)

\* fc.initArgs(ty): typeName of each component type, in order; the state
\* after naming the components cs.
initArgsFrom(st, fc, cs) ==
    IF cs = <<>> THEN st
    ELSE initArgsFrom(typeName(st, fc, Head(cs)).st, fc, Tail(cs))

initArgs(st, fc, ty) == initArgsFrom(st, fc, Components(ty))

\* fc.typeName(ty): the state after the call and the returned identifier.
typeName(st, fc, ty) ==
    IF ty[1] = "Basic"
    THEN [st |-> st, ret |-> <<36>> \o toJavaScriptType(ty[2])]
    ELSE IF ty[1] = "Named"
    THEN LET r == instName(st, fc, NamedInstance(fc, ty[2]))
         IN  [st |-> r.st, ret |-> r.ret]
    ELSE IF AnonKnown(st, ty)
    THEN LET idx == st.anonTypeMap[ty]
         IN  [st |-> DeclareAnonDep(st, fc, idx), ret |-> st.anonTypes[idx].name]
    ELSE LET st1 == initArgs(st, fc, ty)
             r == newVariable(st1, fc, AnonTypeBase(ty), TRUE)
             idx == Len(r.st.anonTypes) + 1
             st2 == [r.st EXCEPT
                        !.anonTypes = Append(@, [name |-> r.ret, type |-> ty]),
                        !.anonTypeMap = Put(@, ty, idx)]
         IN  [st |-> DeclareAnonDep(st2, fc, idx), ret |-> r.ret]

---------------------------------------------------------------------------
(* The compiler state as one value, for the operations that call each      *)
(* other (typeName -> instName -> objectName -> newVariable).              *)

State ==
    [allVars |-> allVars, localVars |-> localVars, objectNames |-> objectNames,
     dceDeps |-> dceDeps, instanceIDs |-> instanceIDs, anonTypes |-> anonTypes,
     anonTypeMap |-> anonTypeMap]

Commit(st) ==
    /\ allVars' = st.allVars
    /\ localVars' = st.localVars
    /\ objectNames' = st.objectNames
    /\ dceDeps' = st.dceDeps
    /\ instanceIDs' = st.instanceIDs
    /\ anonTypes' = st.anonTypes
    /\ anonTypeMap' = st.anonTypeMap

Contexts == DOMAIN parent

\* The instance of a context that translates no function (the package scope).
NoInstance == [Object |-> "nil", TNest |-> <<>>, TArgs |-> <<>>]

\* The names a context has in use: its local names and the names its own
\* module-level allocations returned.
Live(fc) == Range(localVars[fc]) \cup returnedPkg[fc]

---------------------------------------------------------------------------
(* Operations on the scope tree.                                           *)

\* A nested function context: its count table starts as a copy of the
\* parent's, its local-name list and its object names start empty.
NewFuncContext(p, inst) ==
    /\ parent' = Append(parent, p)
    /\ instance' = Append(instance, inst)
    /\ allVars' = Append(allVars, allVars[p])
    /\ localVars' = Append(localVars, <<>>)
    /\ objectNames' = Append(objectNames, <<>>)
    /\ returnedPkg' = Append(returnedPkg, {})
    /\ call' = [op |-> "newFuncContext", fc |-> Len(parent) + 1, nth |-> call.nth]
    /\ UNCHANGED <<minify, escapingVars, pkgVars, dceDeps, instanceIDs,
                   anonTypes, anonTypeMap, requested, named, errList, bridgeVars>>

\* fc.newVariable(name, pkgLevel), for a non-empty name.
NewVariable(fc, name, pkgLevel) ==
    LET r == newVariable(State, fc, name, pkgLevel)
    IN  /\ name # <<>>
        /\ Commit(r.st)
        /\ returnedPkg' = IF pkgLevel
                          THEN [returnedPkg EXCEPT ![fc] = @ \cup {r.ret}]
                          ELSE returnedPkg
        /\ requested' = Put(requested, <<fc, name>>, Get(requested, <<fc, name>>) + 1)
        /\ call' = [op |-> "newVariable", fc |-> fc, name |-> name,
                    pkgLevel |-> pkgLevel, ret |-> r.ret, base |-> r.base,
                    n |-> r.n, k |-> Get(requested, <<fc, name>>),
                    live |-> r.ret \in Live(fc), nth |-> call.nth + 1]
        /\ UNCHANGED <<minify, parent, instance, escapingVars, pkgVars, named,
                       errList, bridgeVars>>

\* fc.newLocalVariable(name)
NewLocalVariable(fc, name) == NewVariable(fc, name, FALSE)

\* A reference to object o from context fc is inside o's lexical extent: the
\* local variables v and w are declared in the function of context 2.
InExtent(fc, o) ==
    (Objects[o].scope = "function" /\ Objects[o].kind = "var") =>
        (2 \in Contexts /\ ParentChain(parent, fc) \cap {2} # {})

\* The keys of the reference history: a direct reference to an object, and a
\* reference to an instance.
ObjKey(fc, o) == <<fc, o, <<"ref">>, <<>> >>
InstKey(fc, inst) == <<fc, inst.Object, inst.TNest, inst.TArgs>>

\* The names the history holds under key k.
Named(k) == IF k \in DOMAIN named THEN named[k] ELSE {}

\* The call record of an objectName call with result r.
ObjectNameCall(fc, o, r) ==
    LET prior == assignedObjectName(State, fc, o)
    IN  [op |-> "objectName", fc |-> fc, obj |-> o, ret |-> r.ret,
         name |-> r.name, allocated |-> r.allocated,
         found |-> prior.found, prior |-> prior.name,
         changed |-> (r.st.allVars # allVars \/ r.st.localVars # localVars),
         nth |-> call.nth + 1]

\* fc.objectName(o)
ObjectName(fc, o) ==
    \E r \in {objectName(State, fc, o)} :
        /\ InExtent(fc, o)
        /\ Commit(r.st)
        /\ named' = Put(named, ObjKey(fc, o),
                        Named(ObjKey(fc, o))
                            \cup {IF r.name = <<>> THEN r.ret ELSE r.name})
        /\ call' = ObjectNameCall(fc, o, r)
        /\ UNCHANGED <<minify, parent, instance, escapingVars, pkgVars,
                       returnedPkg, requested, errList, bridgeVars>>

\* fc.handleEscapingVars(n), for a node n in which the one variable o escapes.
HandleEscapingVars(fc, o) ==
    \E r \in {objectName(State, fc, o)} :
        /\ InExtent(fc, o)
        /\ Commit(r.st)
        /\ escapingVars' = escapingVars \cup {o}
        /\ named' = Put(named, ObjKey(fc, o), Named(ObjKey(fc, o)) \cup {r.name})
        /\ call' = [ObjectNameCall(fc, o, r) EXCEPT !.op = "handleEscapingVars"]
        /\ UNCHANGED <<minify, parent, instance, pkgVars, returnedPkg, requested,
                       errList, bridgeVars>>

\* fc.instName(inst); the call refers to the instance and, through
\* objectName, to its entity.
InstName(fc, inst) ==
    \E r \in {instName(State, fc, inst)} :
        /\ Commit(r.st)
        /\ named' = Put(Put(named, InstKey(fc, inst),
                            Named(InstKey(fc, inst)) \cup {r.ret}),
                        ObjKey(fc, inst.Object),
                        Named(ObjKey(fc, inst.Object)) \cup {r.objName})
        /\ call' = [op |-> "instName", fc |-> fc, inst |-> inst, ret |-> r.ret,
                    objName |-> r.objName, id |-> r.id,
                    newDeps |-> r.st.dceDeps \ dceDeps, nth |-> call.nth + 1]
        /\ UNCHANGED <<minify, parent, instance, escapingVars, pkgVars,
                       returnedPkg, requested, errList, bridgeVars>>

\* fc.typeName(ty)
TypeName(fc, ty) ==
    \E r \in {typeName(State, fc, ty)} :
        /\ Commit(r.st)
        /\ named' = Put(named, <<fc, ty>>, Named(<<fc, ty>>) \cup {r.ret})
        /\ call' = [op |-> "typeName", fc |-> fc, type |-> ty, ret |-> r.ret,
                    known |-> AnonKnown(State, ty),
                    prior |-> IF AnonKnown(State, ty)
                              THEN anonTypes[anonTypeMap[ty]].name ELSE <<>>,
                    changed |-> (r.st.allVars # allVars \/ r.st.localVars # localVars
                                 \/ r.st.anonTypes # anonTypes),
                    nth |-> call.nth + 1]
        /\ UNCHANGED <<minify, parent, instance, escapingVars, pkgVars,
                       returnedPkg, requested, errList, bridgeVars>>

\* fc.importedPkgVar(pkg) for a package named name, as a function of the
\* compiler state: the state after the call and the new pkgVars.
importedPkgVar(st, vars0, fc, pkg, name) ==
    IF pkg \in DOMAIN vars0 THEN [st |-> st, pkgVars |-> vars0, ret |-> vars0[pkg]]
    ELSE LET r == newVariable(st, fc, name, TRUE)
         IN  [st |-> r.st, pkgVars |-> Put(vars0, pkg, r.ret), ret |-> r.ret]

---------------------------------------------------------------------------
(* Initial states.                                                         *)

\* The package context alone, nothing allocated.
InitCompiler ==
    /\ parent = <<0>>
    /\ instance = <<NoInstance>>
    /\ allVars = << <<>> >>
    /\ localVars = << <<>> >>
    /\ objectNames = << <<>> >>
    /\ escapingVars = {}
    /\ pkgVars = <<>>
    /\ dceDeps = {}
    /\ instanceIDs = <<>>
    /\ anonTypes = <<>>
    /\ anonTypeMap = <<>>
    /\ returnedPkg = <<{}>>
    /\ requested = <<>>
    /\ named = <<>>
    /\ call = [op |-> "none", nth |-> 0]
    /\ errList = <<>>

\* No conversion under way.
InitBridgeIdle ==
    /\ goVal = <<>>
    /\ hostVal = <<>>
    /\ hostKind = "none"
    /\ goOut = <<>>
    /\ hostOut = <<>>
    /\ pc = "idle"

---------------------------------------------------------------------------
(* Spec: allocations issued from the contexts of one scope tree.           *)

NameX == <<120>>        \* "x"
TreeNames == {NameX}

Init == minify \in BOOLEAN /\ InitCompiler /\ InitBridgeIdle

EnterFunction ==
    \E p \in Contexts :
        /\ Len(parent) < MaxContexts
        /\ NewFuncContext(p, NoInstance)

Allocate ==
    \E fc \in Contexts, name \in TreeNames, pkgLevel \in BOOLEAN :
        /\ call.nth < MaxAllocs
        /\ NewVariable(fc, name, pkgLevel)

Next == EnterFunction \/ Allocate

Spec == Init /\ [][Next]_vars

---------------------------------------------------------------------------
(* SpecNatural: one function context, natural names, local allocations.    *)

NameXDLE == <<120, 16>>     \* "x" followed by the control byte 0x10
NaturalNames == {NameX, NameXDLE}

InitNatural == minify = FALSE /\ InitCompiler /\ InitBridgeIdle

AllocateLocal ==
    \E name \in NaturalNames :
        /\ call.nth < MaxNatural
        /\ NewLocalVariable(1, name)

NextNatural == AllocateLocal

SpecNatural == InitNatural /\ [][NextNatural]_vars

---------------------------------------------------------------------------
(* SpecMinify: one context, minified names, both kinds of allocation.      *)

InitMinify == minify = TRUE /\ InitCompiler /\ InitBridgeIdle

AllocateMinified ==
    \E pkgLevel \in BOOLEAN :
        /\ call.nth < MaxMinified
        /\ NewVariable(1, NameX, pkgLevel)

NextMinify == AllocateMinified

SpecMinify == InitMinify /\ [][NextMinify]_vars

---------------------------------------------------------------------------
(* Claims about newVariable.                                               *)

NoDuplicates(s) == \A i, j \in DOMAIN s : i # j => s[i] # s[j]

\* The name the k-th request for one proposed name is to get in natural mode.
NaturalName(name, k) ==
    IF k = 0 THEN encodeIdent(name)
    ELSE encodeIdent(name) \o <<36>> \o FormatInt(k)

\* C1: in natural mode the names one context returns are pairwise distinct,
\* and the k-th request for a proposed name returns the sanitized name
\* (k = 0) or the sanitized name, '$' and k (k > 0).
C1_DistinctNaturalNames ==
    /\ NoDuplicates(localVars[1])
    /\ call.op = "newVariable" => call.ret = NaturalName(call.name, call.k)

\* The names returned by module-level allocations, and by function-local
\* allocations, of any context.
AllPkgNames == UNION {returnedPkg[c] : c \in Contexts}
AllLocalNames == UNION {Range(localVars[c]) : c \in Contexts}

\* C2: no local-name list holds a name twice, a returned name was not live
\* in the allocating context, and no name is returned both by a module-level
\* and by a function-local allocation.
C2_NoNameReuse ==
    /\ \A c \in Contexts : NoDuplicates(localVars[c])
    /\ call.op = "newVariable" => ~call.live
    /\ AllPkgNames \cap AllLocalNames = {}

\* The K-th string (K = 0, 1, ...) of A, B, ..., Z, AA, AB, ..., ZZ, from the
\* letter first: the strings ordered by length, then alphabetically.
Bijective26(K, first) ==
    IF K < 26 THEN <<first + K>>
    ELSE <<first + ((K - 26) \div 26), first + ((K - 26) % 26)>>

\* The number of earlier allocations of the kind of the last one, in the one
\* context of SpecMinify.
EarlierOfKind ==
    IF call.pkgLevel THEN call.nth - Len(localVars[1]) - 1
    ELSE Len(localVars[1]) - 1

\* C3: in minified mode the K-th module-level allocation of a context returns
\* the K-th string of A, B, ..., Z, AA, ..., the K-th function-local one the
\* K-th string of a, b, ..., z, aa, ...; the candidates before it have a
\* non-zero count and are skipped, the returned one had count zero, and the
\* returned name has no '$N' suffix.
C3_MinifiedSequence ==
    call.op = "newVariable" =>
        LET first == IF call.pkgLevel THEN 65 ELSE 97
        IN  /\ call.ret = Bijective26(EarlierOfKind, first)
            /\ call.n = 0
            /\ \A i \in 0 .. (EarlierOfKind - 1) :
                   Get(allVars[1], Bijective26(i, first)) # 0
            /\ 36 \notin Range(call.ret)

\* The 27th module-level allocation has returned "AA".
C3_Witness ==
    /\ call.op = "newVariable"
    /\ call.pkgLevel
    /\ call.nth = 27
    /\ Len(localVars[1]) = 0
    /\ call.ret = <<65, 65>>

\* a is fc or one of the contexts above it.
RECURSIVE IsSelfOrAbove(_, _)
IsSelfOrAbove(a, fc) ==
    fc # 0 /\ (a = fc \/ IsSelfOrAbove(a, parent[fc]))

\* C5: a module-level allocation writes one name with one new count into the
\* count table of the allocating context and of each of its ancestors up to
\* the root, and changes no local-name list and no other count table; a
\* function-local allocation changes the count table of the allocating
\* context only and appends the returned name to its local-name list.
C5_FrameEffect ==
    [][call'.op = "newVariable" /\ call'.nth # call.nth =>
        LET fc == call'.fc
            b == call'.base
            count == Get(allVars[fc], b) + 1
        IN  IF call'.pkgLevel
            THEN /\ \A c \in Contexts :
                        allVars'[c] = IF IsSelfOrAbove(c, fc)
                                      THEN Put(allVars[c], b, count)
                                      ELSE allVars[c]
                 /\ localVars' = localVars
            ELSE /\ \A c \in Contexts :
                        allVars'[c] = IF c = fc
                                      THEN Put(allVars[c], b, count)
                                      ELSE allVars[c]
                 /\ localVars' = [localVars EXCEPT ![fc] = Append(@, call'.ret)]
    ]_vars

\* A module-level allocation was issued from a context two levels below the
\* root, next to a context that is not above it.
C5_Witness ==
    /\ call.op = "newVariable"
    /\ call.pkgLevel
    /\ parent[call.fc] # 0
    /\ parent[parent[call.fc]] # 0
    /\ Get(allVars[1], call.base) = call.n + 1

---------------------------------------------------------------------------
(* SpecObj: references to objects from the contexts of one scope tree.     *)
(* SpecInst: references to instances from the package context and the      *)
(* function contexts.                                                      *)

\* "other", the name of the imported package.
NameOther == <<111, 116, 104, 101, 114>>

\* The state before code generation: the package context, with the imported
\* package registered through importedPkgVar.
InitObj ==
    /\ minify \in BOOLEAN
    /\ parent = <<0>>
    /\ instance = <<NoInstance>>
    /\ escapingVars = {}
    /\ returnedPkg = <<{}>>
    /\ requested = <<>>
    /\ named = <<>>
    /\ call = [op |-> "none", nth |-> 0]
    /\ errList = <<>>
    /\ \E r \in {importedPkgVar(
                    [allVars |-> << <<>> >>, localVars |-> << <<>> >>,
                     objectNames |-> << <<>> >>, dceDeps |-> {},
                     instanceIDs |-> <<>>, anonTypes |-> <<>>,
                     anonTypeMap |-> <<>>],
                    <<>>, 1, OtherPkg, NameOther)} :
        /\ allVars = r.st.allVars
        /\ pkgVars = r.pkgVars
        /\ localVars = r.st.localVars
        /\ objectNames = r.st.objectNames
        /\ dceDeps = r.st.dceDeps
        /\ instanceIDs = r.st.instanceIDs
        /\ anonTypes = r.st.anonTypes
        /\ anonTypeMap = r.st.anonTypeMap
    /\ InitBridgeIdle

\* The instance the function contexts translate: the nested contexts are
\* those of the generic function G instantiated with int and of the function
\* literals in it.
GInt == [Object |-> "G", TNest |-> <<>>, TArgs |-> <<"int">>]

\* The instances instName is asked about.
RequestedInstances ==
    {GInt,
     [Object |-> "G", TNest |-> <<>>, TArgs |-> <<"string">>],
     [Object |-> "T", TNest |-> <<"int">>, TArgs |-> <<>>],
     [Object |-> "m", TNest |-> <<>>, TArgs |-> <<>>],
     [Object |-> "E", TNest |-> <<>>, TArgs |-> <<>>]}

\* The objects objectName is asked about directly.
RequestedObjects == {"v", "w", "F", "X"}

EnterInstance ==
    \E p \in Contexts :
        /\ Len(parent) < MaxContexts
        /\ NewFuncContext(p, IF p = 1 THEN GInt ELSE instance[p])

RefObject ==
    \E fc \in Contexts, o \in RequestedObjects :
        /\ call.nth < MaxCalls
        /\ ObjectName(fc, o)

RefEscaping ==
    \E fc \in Contexts :
        /\ call.nth < MaxCalls
        /\ HandleEscapingVars(fc, "v")

NextObj == EnterInstance \/ RefObject \/ RefEscaping

SpecObj == InitObj /\ [][NextObj]_vars

EnterGeneric ==
    \E p \in Contexts :
        /\ Len(parent) < MaxInstContexts
        /\ NewFuncContext(p, IF p = 1 THEN GInt ELSE instance[p])

RefLocal ==
    \E fc \in Contexts :
        /\ call.nth < MaxCalls
        /\ ObjectName(fc, "v")

RefInstance ==
    \E fc \in Contexts, inst \in RequestedInstances :
        /\ call.nth < MaxCalls
        /\ InstName(fc, inst)

NextInst == EnterGeneric \/ RefLocal \/ RefInstance

SpecInst == InitObj /\ [][NextInst]_vars

---------------------------------------------------------------------------
(* Claims about objectName (SpecObj) and instName (SpecInst).              *)

RefOps == {"objectName", "handleEscapingVars"}

\* The names the references to binding o have yielded, over all contexts.
NamesOf(o) == UNION {Named(ObjKey(fc, o)) : fc \in Contexts}

\* The bindings referred to: the local variables v and w, the package-level
\* function F and the exported package-level variable X.
Bindings == RequestedObjects

\* A reference to a binding that this or an enclosing context had named
\* returned that name and changed no count table and no local-name list.
Memoized ==
    (call.op \in RefOps /\ call.found) =>
        /\ call.name = call.prior
        /\ ~call.allocated
        /\ ~call.changed

\* C4: a reference to a binding already named in the requesting scope or in
\* one of its ancestors returns that name and allocates nothing; and all the
\* references to one binding made from scopes inside its lexical extent, in
\* any order (a nested scope's reference may come first), yield one name.
C4_StableObjectName ==
    /\ Memoized
    /\ \A o \in Bindings : Cardinality(NamesOf(o)) <= 1

\* C4, amended: a reference to a binding already named in the requesting
\* scope or in one of its ancestors returns that name and allocates nothing;
\* all the references to one package-level binding yield one name; and once
\* the scope that declares a local binding has named it, every reference
\* from that scope and the scopes nested in it yields that name, which never
\* changes afterwards.
C4_StableOnceDeclared ==
    [][/\ Memoized'
       /\ \A o \in Bindings :
            isPkgLevel(o) => Cardinality(NamesOf(o))' <= 1
       /\ \A o \in RequestedObjects :
            (/\ ~isPkgLevel(o)
             /\ 2 \in Contexts
             /\ o \in DOMAIN objectNames[2]
             /\ call'.nth # call.nth
             /\ call'.op \in RefOps
             /\ call'.obj = o) =>
                /\ call'.name = objectNames[2][o]
                /\ call'.found
                /\ objectNames'[2][o] = objectNames[2][o]
    ]_vars

\* A scope nested in the declaring scope referred to a local binding that
\* the declaring scope had named, after the other local of the same Go name
\* had taken the plain name.
C4_Witness ==
    /\ call.op \in RefOps
    /\ call.obj = "w"
    /\ call.fc > 2
    /\ call.found
    /\ 2 \in Contexts
    /\ "w" \in DOMAIN objectNames[2]
    /\ call.name = objectNames[2]["w"]
    /\ "v" \in DOMAIN objectNames[2]

\* The instances instName has been asked about, from any context.
NamedInstances ==
    {i \in RequestedInstances : \E fc \in Contexts : InstKey(fc, i) \in DOMAIN named}

\* The expressions instName has returned for instance i, over all contexts.
InstNamesOf(i) == UNION {Named(InstKey(fc, i)) : fc \in Contexts}

\* Registered instances of one entity with different arguments have
\* different IDs.
DistinctIDs ==
    \A i, j \in DOMAIN instanceIDs :
        (i # j /\ i.Object = j.Object) => instanceIDs[i] # instanceIDs[j]

\* A trivial instance is named by its entity's name, with no ID.
TrivialIsBaseName ==
    (call.op = "instName" /\ IsTrivial(call.inst)) =>
        /\ call.ret = call.objName
        /\ call.id = -1
        /\ call.inst \notin DOMAIN instanceIDs

\* A non-trivial instance is named by the entity's name and its registered ID.
NonTrivialHasID ==
    (call.op = "instName" /\ ~IsTrivial(call.inst)) =>
        /\ call.inst \in DOMAIN instanceIDs
        /\ call.id = instanceIDs[call.inst]
        /\ call.ret = call.objName \o <<91>> \o FormatInt(call.id)
                          \o TypeParamsString(call.inst) \o <<93>>

ExactDep(fc, inst) ==
    [from |-> fc, obj |-> inst.Object, anon |-> 0, tNest |-> inst.TNest,
     tArgs |-> inst.TArgs]

\* C7: every instName call, for a trivial instance or not and for every
\* kind of entity, has recorded a dependency from the current context to
\* exactly that instance (entity, nesting and direct type arguments) when
\* it returns.
C7_EveryInstNameRecordsDep ==
    call.op = "instName" => ExactDep(call.fc, call.inst) \in dceDeps

\* C7, amended: an instName call for a non-trivial instance, or for an
\* entity named at package level (package-level function, named type, entity
\* of another package), has recorded a dependency from the current context
\* to exactly that instance when it returns; a call for the trivial instance
\* of an entity that is not named at package level (a method) records no
\* dependency.
C7_InstNameRecordsDepUnlessLocalTrivial ==
    call.op = "instName" =>
        IF ~IsTrivial(call.inst) \/ isPkgLevel(call.inst.Object)
        THEN ExactDep(call.fc, call.inst) \in dceDeps
        ELSE call.newDeps = {}

\* A nested context asked for a non-trivial instance and the call added
\* dependencies.
C7_Witness ==
    /\ call.op = "instName"
    /\ ~IsTrivial(call.inst)
    /\ call.fc # 1
    /\ ExactDep(call.fc, call.inst) \in call.newDeps

---------------------------------------------------------------------------
(* SpecTypes: typeName requests from the package context and the function  *)
(* contexts.                                                               *)

TInt == <<"Basic", "int">>
TString == <<"Basic", "string">>
TSliceInt == <<"Slice", TInt>>

\* []int, [][]int, map[string][]int, *N
RequestedTypes ==
    {TSliceInt,
     <<"Slice", TSliceInt>>,
     <<"Map", TString, TSliceInt>>,
     <<"Pointer", <<"Named", "N">> >>}

RefType ==
    \E fc \in Contexts, ty \in RequestedTypes :
        /\ call.nth < MaxCalls
        /\ TypeName(fc, ty)

NextTypes == EnterGeneric \/ RefType

SpecTypes == InitObj /\ [][NextTypes]_vars

\* ty is an anonymous composite type.
IsAnon(ty) == ty[1] \in {"Slice", "Pointer", "Map"}

\* The anonymous types in ty: ty itself and its components, recursively.
RECURSIVE AnonIn(_)
AnonIn(ty) ==
    IF ~IsAnon(ty) THEN {}
    ELSE {ty} \cup UNION {AnonIn(Components(ty)[i]) : i \in DOMAIN Components(ty)}

\* The anonymous types requested so far, with their components.
AnonRequested ==
    UNION {AnonIn(ty) : ty \in {t \in RequestedTypes :
                                    \E fc \in Contexts : <<fc, t>> \in DOMAIN named}}

\* C8: after any sequence of typeName calls for anonymous composite types
\* from any contexts, anonTypes holds exactly one declaration per
\* structurally distinct type requested (directly or as a component); a
\* type identical to one seen before gets the name synthesized then, with
\* no allocation and no new declaration; the component types are declared
\* before the type that contains them.
C8_OneDeclarationPerAnonType ==
    /\ {anonTypes[i].type : i \in DOMAIN anonTypes} = AnonRequested
    /\ \A i, j \in DOMAIN anonTypes :
            anonTypes[i].type = anonTypes[j].type => i = j
    /\ \A ty \in RequestedTypes :
            Cardinality(UNION {Named(<<fc, ty>>) : fc \in Contexts}) <= 1
    /\ (call.op = "typeName" /\ call.known) =>
            /\ call.ret = call.prior
            /\ ~call.changed
    /\ \A i \in DOMAIN anonTypes :
            \A c \in AnonIn(anonTypes[i].type) \ {anonTypes[i].type} :
                \E j \in 1..(i - 1) : anonTypes[j].type = c

\* A function context asked for a type that was declared before, as a
\* component of a type another context had asked for, and three types are
\* declared.
C8_Witness ==
    /\ call.op = "typeName"
    /\ call.known
    /\ call.fc # 1
    /\ Len(anonTypes) >= 3
    /\ \E fc \in Contexts \ {call.fc}, ty \in RequestedTypes :
            /\ <<fc, ty>> \in DOMAIN named
            /\ call.type \in AnonIn(ty) \ {ty}
    /\ \A fc \in Contexts : <<fc, call.type>> \in DOMAIN named => fc = call.fc

---------------------------------------------------------------------------
(* The value bridge: $internalize of a host number into an integer kind.   *)
(* A host number is (-1)^neg * mant * 10^exp, a decimal with few digits.   *)
(* All the values here lie inside the signed 32-bit range.                 *)

RECURSIVE Pow10(_)
Pow10(n) == IF n = 0 THEN 1 ELSE 10 * Pow10(n - 1)

RECURSIVE Pow2(_)
Pow2(n) == IF n = 0 THEN 1 ELSE 2 * Pow2(n - 1)

\* The decimal digits of the number without trailing zeros, and the
\* exponent that goes with them.
RECURSIVE StripZeros(_, _)
StripZeros(mant, exp) ==
    IF mant # 0 /\ mant % 10 = 0 THEN StripZeros(mant \div 10, exp + 1)
    ELSE [mant |-> mant, exp |-> exp]

\* n zeros
Zeros(n) == [i \in 1..n |-> 48]

\* String(v) of a host number (Number::toString, radix 10): with k digits
\* and the decimal point after the n-th digit, plain notation when
\* -6 < n <= 21 and exponential notation otherwise.
NumberToString(v) ==
    LET c == StripZeros(v.mant, v.exp)
        digits == FormatInt(c.mant)
        k == Len(digits)
        n == k + c.exp
        e == n - 1
        body ==
            IF k <= n /\ n <= 21 THEN digits \o Zeros(n - k)
            ELSE IF 0 < n /\ n <= 21
            THEN SubSeq(digits, 1, n) \o <<46>> \o SubSeq(digits, n + 1, k)
            ELSE IF -6 < n /\ n <= 0
            THEN <<48, 46>> \o Zeros(-n) \o digits
            ELSE <<digits[1]>>
                 \o (IF k > 1 THEN <<46>> \o SubSeq(digits, 2, k) ELSE <<>>)
                 \o <<101>> \o (IF e < 0 THEN <<45>> ELSE <<43>>)
                 \o FormatInt(IF e < 0 THEN -e ELSE e)
    IN  IF v.mant = 0 THEN <<48>>
        ELSE (IF v.neg THEN <<45>> ELSE <<>>) \o body

\* The value of the longest prefix of str made of decimal digits, given the
\* value acc of the digits read so far.
RECURSIVE LeadingDigits(_, _)
LeadingDigits(str, acc) ==
    IF str = <<>> \/ ~IsDigit(Head(str)) THEN acc
    ELSE LeadingDigits(Tail(str), 10 * acc + (Head(str) - 48))

\* parseInt(v) for a host number v: the number is converted to a string and
\* the integer in front of it is read; NaN when no digit is in front.
parseInt(v) ==
    LET str == NumberToString(v)
        neg == str # <<>> /\ Head(str) = 45
        rest == IF neg THEN Tail(str) ELSE str
    IN  IF rest = <<>> \/ ~IsDigit(Head(rest))
        THEN [nan |-> TRUE, val |-> 0]
        ELSE [nan |-> FALSE,
              val |-> IF neg THEN -LeadingDigits(rest, 0) ELSE LeadingDigits(rest, 0)]

\* x << s, for an x inside the signed 32-bit range: the low 32 - s bits of x
\* moved up, read as a signed 32-bit integer.
ShiftLeft(x, s) ==
    LET low == x % Pow2(32 - s)
    IN  IF low >= Pow2(31 - s) THEN (low - Pow2(32 - s)) * Pow2(s)
        ELSE low * Pow2(s)

\* x >> s of a signed 32-bit x: the sign is kept (\div rounds down).
ShiftRight(x, s) == x \div Pow2(s)

\* x >>> s of a signed 32-bit x, s > 0: x is read as unsigned.
ShiftRightUnsigned(x, s) ==
    IF x >= 0 THEN x \div Pow2(s)
    ELSE Pow2(32 - s) + ShiftRight(x, s)

IntKinds == {"Int8", "Int16", "Int32", "Uint8", "Uint16", "Uint32"}

\* $internalize(v, t) for the integer kinds; NaN turns into 0 in a shift.
\* x >> 0 of a value inside the signed 32-bit range is x; x >>> 0 is x for
\* an x that is not negative.
internalizeInt(v, kind) ==
    LET p == parseInt(v)
        x == IF p.nan THEN 0 ELSE p.val
    IN  IF kind = "Int8" THEN ShiftRight(ShiftLeft(x, 24), 24)
        ELSE IF kind = "Int16" THEN ShiftRight(ShiftLeft(x, 16), 16)
        ELSE IF kind = "Int32" THEN x
        ELSE IF kind = "Uint8" THEN ShiftRightUnsigned(ShiftLeft(x, 24), 24)
        ELSE IF kind = "Uint16" THEN ShiftRightUnsigned(ShiftLeft(x, 16), 16)
        ELSE x

\* The host numbers handed over: 0, 3.9, 300, 5e-7, 128, 40000, 70000.5
\* and the like, of either sign.
HostMantissas == {0, 3, 5, 39, 128, 300, 40000, 700005}
HostExponents == (0 - 7)..1
HostNumbers ==
    {[neg |-> ng, mant |-> mt, exp |-> ex] :
        ng \in BOOLEAN, mt \in HostMantissas, ex \in HostExponents}

\* A host number waits to be internalized into an integer kind; a negative
\* number into Uint32 would leave the signed 32-bit range.
InitInt ==
    /\ InitCompiler
    /\ minify = FALSE
    /\ goVal = <<>>
    /\ hostVal \in HostNumbers
    /\ hostKind \in IntKinds
    /\ (hostKind = "Uint32" => ~hostVal.neg)
    /\ goOut = 0
    /\ hostOut = <<>>
    /\ pc = "ready"

\* $internalize(v, t) with t an integer kind.
InternalizeInt ==
    /\ pc = "ready"
    /\ goOut' = internalizeInt(hostVal, hostKind)
    /\ pc' = "done"
    /\ UNCHANGED <<compilerVars, hostOut, goVal, hostVal, hostKind>>

NextInt == InternalizeInt

SpecInt == InitInt /\ [][NextInt]_vars

\* The host number with its fractional part cut off (toward zero).
Truncated(v) ==
    LET a == IF v.exp >= 0 THEN v.mant * Pow10(v.exp) ELSE v.mant \div Pow10(-v.exp)
    IN  IF v.neg THEN -a ELSE a

\* The low w bits of x, read as two's complement for a signed kind.
LowBits(x, w, signed) ==
    LET low == x % Pow2(w)
    IN  IF signed /\ low >= Pow2(w - 1) THEN low - Pow2(w) ELSE low

\* C9: for the integer kinds of 8, 16 and 32 bits, $internalize of a host
\* number is the number with its fractional part truncated toward zero,
\* reduced to its low w bits, two's complement for the signed kinds; so 300
\* gives 44 as Int8 and as Uint8, and 3.9 gives 3.
C9_TruncateThenWrap ==
    pc = "done" =>
        goOut =
            IF hostKind = "Int8" THEN LowBits(Truncated(hostVal), 8, TRUE)
            ELSE IF hostKind = "Int16" THEN LowBits(Truncated(hostVal), 16, TRUE)
            ELSE IF hostKind = "Uint8" THEN LowBits(Truncated(hostVal), 8, FALSE)
            ELSE IF hostKind = "Uint16" THEN LowBits(Truncated(hostVal), 16, FALSE)
            ELSE Truncated(hostVal)

\* The part of C9 that holds: every host number whose magnitude is 0 or at
\* least 0.000001 is truncated and wrapped.
C9_HoldsFromOneMillionth ==
    (pc = "done" /\ (hostVal.mant = 0
                     \/ Len(FormatInt(StripZeros(hostVal.mant, hostVal.exp).mant))
                            + StripZeros(hostVal.mant, hostVal.exp).exp > -6)) =>
        C9_TruncateThenWrap

---------------------------------------------------------------------------
(* The value bridge: strings.  A compiled string is a sequence of bytes    *)
(* (UTF-8 when it is text), a host string a sequence of UTF-16 code units. *)

\* Bytes of a compiled string.
MaxStrLen == 4

\* b is a continuation byte 10xxxxxx.
IsCont(b) == 128 <= b /\ b < 192

\* $decodeRune(str, pos): the scalar value at pos and the bytes it takes;
\* <<0xFFFD, 1>> for a byte that starts no well-formed encoding (a stray
\* continuation byte, a truncated or overlong form, a surrogate, a value
\* above 0x10FFFF, the bytes 0xF8..0xFF).
decodeRune(str, pos) ==
    LET n == Len(str) - pos + 1
        b0 == str[pos]
        bad == <<65533, 1>>
    IN  IF b0 < 128 THEN <<b0, 1>>
        ELSE IF b0 < 192 THEN bad
        ELSE IF b0 < 224
        THEN IF n < 2 \/ ~IsCont(str[pos + 1]) THEN bad
             ELSE LET r == (b0 % 32) * 64 + (str[pos + 1] % 64)
                  IN  IF r <= 127 THEN bad ELSE <<r, 2>>
        ELSE IF b0 < 240
        THEN IF n < 3 \/ ~IsCont(str[pos + 1]) \/ ~IsCont(str[pos + 2]) THEN bad
             ELSE LET r == (b0 % 16) * 4096 + (str[pos + 1] % 64) * 64
                                + (str[pos + 2] % 64)
                  IN  IF r <= 2047 \/ (55296 <= r /\ r <= 57343) THEN bad
                      ELSE <<r, 3>>
        ELSE IF b0 < 248
        THEN IF n < 4 \/ ~IsCont(str[pos + 1]) \/ ~IsCont(str[pos + 2])
                \/ ~IsCont(str[pos + 3]) THEN bad
             ELSE LET r == (b0 % 8) * 262144 + (str[pos + 1] % 64) * 4096
                                + (str[pos + 2] % 64) * 64 + (str[pos + 3] % 64)
                  IN  IF r <= 65535 \/ r > 1114111 THEN bad ELSE <<r, 4>>
        ELSE bad

\* $encodeRune(r): the UTF-8 bytes of a scalar value; those of 0xFFFD for a
\* surrogate or a value above 0x10FFFF.
encodeRune(r0) ==
    LET r == IF r0 > 1114111 \/ (55296 <= r0 /\ r0 <= 57343) THEN 65533 ELSE r0
    IN  IF r <= 127 THEN <<r>>
        ELSE IF r <= 2047 THEN <<192 + (r \div 64), 128 + (r % 64)>>
        ELSE IF r <= 65535
        THEN <<224 + (r \div 4096), 128 + ((r \div 64) % 64), 128 + (r % 64)>>
        ELSE <<240 + (r \div 262144), 128 + ((r \div 4096) % 64),
               128 + ((r \div 64) % 64), 128 + (r % 64)>>

\* $isASCII(s): no code unit of s is 128 or more.
isASCII(str) == \A i \in DOMAIN str : str[i] < 128

\* The high surrogate $externalize takes for every scalar value above
\* 0xFFFF: the offset 0x10000 is not taken off.
HighSurrogateNoOffset(c) == (c \div 1024) + 55296

\* The code units $externalize emits for a scalar value above 0xFFFF.
HighSurrogate(c) == ((c - 65536) \div 1024) + 55296
LowSurrogate(c) == ((c - 65536) % 1024) + 56320

\* The loop of $externalize over the compiled string v from byte i on.
RECURSIVE externalizeFrom(_, _)
externalizeFrom(v, i) ==
    IF i > Len(v) THEN <<>>
    ELSE LET r == decodeRune(v, i)
             c == r[1]
         IN  (IF c > 65535 THEN <<HighSurrogate(c), LowSurrogate(c)>> ELSE <<c>>)
                 \o externalizeFrom(v, i + r[2])

\* $externalize(v, t) for t of kind String.
externalizeString(v) == IF isASCII(v) THEN v ELSE externalizeFrom(v, 1)

\* v.charCodeAt(i).  Past the end JavaScript gives NaN; 0 stands for it
\* here.  No host string made by $externalize ends in a high surrogate, so
\* the round trip never reads past the end.
charCodeAt(v, i) == IF i <= Len(v) THEN v[i] ELSE 0

\* The scalar value $internalize combines from a surrogate pair.
Combine(h, l) == (h - 55296) * 1024 + l - 56320 + 65536

\* The loop of $internalize over the host string v from code unit i on.
RECURSIVE internalizeFrom(_, _)
internalizeFrom(v, i) ==
    IF i > Len(v) THEN <<>>
    ELSE LET h == v[i]
         IN  IF 55296 <= h /\ h <= 56319
             THEN encodeRune(Combine(h, charCodeAt(v, i + 1)))
                      \o internalizeFrom(v, i + 2)
             ELSE encodeRune(h) \o internalizeFrom(v, i + 1)

\* $internalize(v, t) for t of kind String and v a host string.
internalizeString(v) == IF isASCII(v) THEN v ELSE internalizeFrom(v, 1)

\* The bytes the compiled strings are made of: A, the bytes of U+00E9
\* (C3 A9), U+2600 (E2 98 80) and U+1F600 (F0 9F 98 80), and FF.
StrBytes == {65, 195, 169, 226, 152, 128, 240, 159, 255}

RECURSIVE SeqsUpTo(_, _)
SeqsUpTo(S, n) ==
    IF n = 0 THEN {<<>>}
    ELSE LET shorter == SeqsUpTo(S, n - 1)
         IN  shorter \cup {Append(q, b) : q \in shorter, b \in S}

\* A compiled string waits to be externalized.
InitStr ==
    /\ InitCompiler
    /\ minify = FALSE
    /\ goVal \in SeqsUpTo(StrBytes, MaxStrLen)
    /\ hostVal = <<>>
    /\ hostKind = "String"
    /\ goOut = <<>>
    /\ hostOut = <<>>
    /\ pc = "ready"

\* $externalize(s, $String)
ExternalizeString ==
    /\ pc = "ready"
    /\ hostVal' = externalizeString(goVal)
    /\ pc' = "external"
    /\ UNCHANGED <<compilerVars, hostOut, goVal, hostKind, goOut>>

\* $internalize(v, $String) of the host string made before
InternalizeString ==
    /\ pc = "external"
    /\ goOut' = internalizeString(hostVal)
    /\ pc' = "done"
    /\ UNCHANGED <<compilerVars, hostOut, goVal, hostVal, hostKind>>

NextStr == ExternalizeString \/ InternalizeString

SpecStr == InitStr /\ [][NextStr]_vars

\* str from byte i on is well-formed UTF-8.
RECURSIVE ValidFrom(_, _)
ValidFrom(str, i) ==
    IF i > Len(str) THEN TRUE
    ELSE LET r == decodeRune(str, i)
         IN  /\ ~(r[1] = 65533 /\ r[2] = 1)
             /\ ValidFrom(str, i + r[2])

ValidUTF8(str) == ValidFrom(str, 1)

\* C10: internalize(externalize(s)) = s for every compiled string s, every
\* byte sequence, ASCII or not, a scalar value above U+FFFF included.
C10_RoundTrip ==
    pc = "done" => goOut = goVal

\* C10, amended: internalize(externalize(s)) = s for every compiled string s
\* that is well-formed UTF-8 (ASCII or not, a scalar value above U+FFFF
\* included, which externalize emits as a surrogate pair and internalize
\* recombines); a byte that starts no well-formed encoding comes back as
\* the three bytes of U+FFFD.
C10_RoundTripValidUTF8 ==
    /\ (pc = "done" /\ ValidUTF8(goVal)) => goOut = goVal
    /\ (pc = "done" /\ goVal = <<255>>) => goOut = <<239, 191, 189>>
    /\ (pc \in {"external", "done"} /\ goVal = <<240, 159, 152, 128>>) =>
            hostVal = <<55357, 56832>>

\* The string with the one scalar value U+1F600 went out as a surrogate
\* pair and came back.
C10_Witness ==
    /\ pc = "done"
    /\ goVal = <<240, 159, 152, 128>>
    /\ hostVal = <<55357, 56832>>
    /\ goOut = goVal

---------------------------------------------------------------------------
(* The value bridge: host values and compiled values of the scalar kinds.  *)
(* A host value is undefined, null, a boolean, a number (an integer or    *)
(* NaN here),                                                              *)
(* a string of UTF-16 code units, an array or an object with properties.   *)
(* A compiled scalar is an integer, NaN (a host number that is no Go        *)
(* integer), a float, a string of bytes or a boolean.                      *)

HUndefined == [tag |-> "undefined"]
HNull == [tag |-> "null"]
HNum(n) == [tag |-> "num", num |-> n]
HStr(str) == [tag |-> "str", text |-> str]
HNaN == [tag |-> "nan"]
HBool(b) == [tag |-> "bool", flag |-> b]
HArr(elems) == [tag |-> "arr", elems |-> elems]
HObj(props) == [tag |-> "obj", props |-> props]

CInt(n) == [tag |-> "int", int |-> n]
CNaN == [tag |-> "nan"]
CFloat(n) == [tag |-> "float", flt |-> n]
CStr(bytes) == [tag |-> "str", bytes |-> bytes]
CBool(b) == [tag |-> "bool", flag |-> b]

\* The host number n as sign, digits and exponent.
NumberOf(n) == [neg |-> n < 0, mant |-> IF n < 0 THEN -n ELSE n, exp |-> 0]

\* "undefined", "null", "true", "false", "NaN", "[object Object]"
StrUndefined == <<117, 110, 100, 101, 102, 105, 110, 101, 100>>
StrNull == <<110, 117, 108, 108>>
StrTrue == <<116, 114, 117, 101>>
StrFalse == <<102, 97, 108, 115, 101>>
StrNaN == <<78, 97, 78>>
StrObject == <<91, 111, 98, 106, 101, 99, 116, 32, 79, 98, 106, 101, 99, 116, 93>>

\* The elements of an array joined with ",".
RECURSIVE JoinComma(_)
JoinComma(strs) ==
    IF strs = <<>> THEN <<>>
    ELSE IF Len(strs) = 1 THEN strs[1]
    ELSE strs[1] \o <<44>> \o JoinComma(Tail(strs))

\* String(v): the conversion of a host value to a host string.
RECURSIVE HostToString(_)
HostToString(v) ==
    IF v.tag = "undefined" THEN StrUndefined
    ELSE IF v.tag = "null" THEN StrNull
    ELSE IF v.tag = "bool" THEN (IF v.flag THEN StrTrue ELSE StrFalse)
    ELSE IF v.tag = "num" THEN NumberToString(NumberOf(v.num))
    ELSE IF v.tag = "nan" THEN StrNaN
    ELSE IF v.tag = "str" THEN v.text
    ELSE IF v.tag = "arr"
    THEN JoinComma([i \in DOMAIN v.elems |->
                        IF v.elems[i].tag \in {"undefined", "null"} THEN <<>>
                        ELSE HostToString(v.elems[i])])
    ELSE StrObject

\* parseInt(v) and parseFloat(v) of a host value: String(v), an optional
\* sign, then the decimal digits in front; NaN when there is none.  (The
\* host strings here have no blanks, no "0x", no point and no exponent.)
ParseNumber(v) ==
    LET str == HostToString(v)
        signed == str # <<>> /\ Head(str) \in {43, 45}
        rest == IF signed THEN Tail(str) ELSE str
    IN  IF rest = <<>> \/ ~IsDigit(Head(rest))
        THEN [nan |-> TRUE, val |-> 0]
        ELSE [nan |-> FALSE,
              val |-> IF signed /\ Head(str) = 45
                      THEN -LeadingDigits(rest, 0) ELSE LeadingDigits(rest, 0)]

\* !!v
Truthy(v) ==
    IF v.tag \in {"undefined", "null", "nan"} THEN FALSE
    ELSE IF v.tag = "bool" THEN v.flag
    ELSE IF v.tag = "num" THEN v.num # 0
    ELSE IF v.tag = "str" THEN v.text # <<>>
    ELSE TRUE

ScalarKinds ==
    {"Bool", "Int", "Int8", "Int16", "Int32", "Uint", "Uint8", "Uint16", "Uint32",
     "Uintptr", "Float64", "String"}

\* The kind dispatch of $internalize(v, t) for t of a scalar kind.  (A
\* negative number into Uint32 or Uintptr is outside the model: the result
\* would not fit the signed 32-bit range.)  p is the number read from v.
internalizeParsed(v, kind, p) ==
    LET x == IF p.nan THEN 0 ELSE p.val
    IN  IF kind = "Bool" THEN CBool(Truthy(v))
        ELSE IF kind \in {"Int", "Uint"} THEN (IF p.nan THEN CNaN ELSE CInt(p.val))
        ELSE IF kind = "Int8" THEN CInt(ShiftRight(ShiftLeft(x, 24), 24))
        ELSE IF kind = "Int16" THEN CInt(ShiftRight(ShiftLeft(x, 16), 16))
        ELSE IF kind = "Uint8" THEN CInt(ShiftRightUnsigned(ShiftLeft(x, 24), 24))
        ELSE IF kind = "Uint16" THEN CInt(ShiftRightUnsigned(ShiftLeft(x, 16), 16))
        ELSE IF kind \in {"Int32", "Uint32", "Uintptr"} THEN CInt(x)
        ELSE IF kind = "Float64" THEN (IF p.nan THEN CNaN ELSE CFloat(p.val))
        ELSE CStr(internalizeString(HostToString(v)))

\* $internalize(v, t) for t of a scalar kind: p is what parseInt or
\* parseFloat reads from v.
internalizeScalar(v, kind) == internalizeParsed(v, kind, ParseNumber(v))

\* $externalize(v, t) for t of a scalar kind: numbers and booleans pass,
\* a string is converted.
externalizeScalar(v, kind) ==
    IF kind = "Bool" THEN HBool(v.flag)
    ELSE IF kind = "String" THEN HStr(externalizeString(v.bytes))
    ELSE IF v.tag = "nan" THEN HNaN
    ELSE HNum(IF v.tag = "float" THEN v.flt ELSE v.int)

\* t.zero() for a scalar kind.
Zero(kind) ==
    IF kind = "Bool" THEN CBool(FALSE)
    ELSE IF kind = "String" THEN CStr(<<>>)
    ELSE IF kind = "Float64" THEN CFloat(0)
    ELSE CInt(0)

---------------------------------------------------------------------------
(* The value bridge: structs without a host handle.  A struct descriptor   *)
(* is a sequence of fields [name, prop, exported, typ]; a compiled struct  *)
(* is a function from the fields' props to values, a host object a         *)
(* function from property keys to host values.                             *)

\* v[key] of a host object: undefined for a key it does not have.
GetProp(v, key) == IF key \in DOMAIN v.props THEN v.props[key] ELSE HUndefined

\* new t.ptr(): every field at its zero value.
ZeroStruct(fields) ==
    [p \in {fields[i].prop : i \in DOMAIN fields} |->
        Zero((CHOOSE f \in Range(fields) : f.prop = p).typ)]

\* The loop of $externalize over the fields from index i on, o being the
\* properties set so far: the exported fields only.
RECURSIVE externalizeFields(_, _, _, _)
externalizeFields(v, fields, i, o) ==
    IF i > Len(fields) THEN o
    ELSE LET f == fields[i]
         IN  externalizeFields(v, fields, i + 1,
                 IF ~f.exported THEN o
                 ELSE Put(o, f.name, externalizeScalar(v[f.prop], f.typ)))

\* $externalize(v, t) for a struct t with no host handle and no wrapper.
externalizeStruct(v, fields) == HObj(externalizeFields(v, fields, 1, <<>>))

\* The loop of $internalize over the fields from index i on, n being the
\* struct built so far: the exported fields only.
RECURSIVE internalizeFields(_, _, _, _)
internalizeFields(v, fields, i, n) ==
    IF i > Len(fields) THEN n
    ELSE LET f == fields[i]
         IN  internalizeFields(v, fields, i + 1,
                 IF ~f.exported THEN n
                 ELSE [n EXCEPT ![f.prop] = internalizeScalar(GetProp(v, f.name), f.typ)])

\* $internalize(v, t) of a host object v for a struct t with no host handle.
internalizeStruct(v, fields) == internalizeFields(v, fields, 1, ZeroStruct(fields))

\* The field descriptors: the field at position i is A or B when exported,
\* a or b when not; its external name is its Go name.
FieldKinds == {"Int", "Int8", "Float64", "String", "Bool"}
FieldAt(i, exported, typ) ==
    LET nm == IF exported THEN <<"A", "B">>[i] ELSE <<"a", "b">>[i]
    IN  [name |-> nm, prop |-> nm, exported |-> exported, typ |-> typ]

StructTypes ==
    {<<>>}
    \cup {<<FieldAt(1, e, k)>> : e \in BOOLEAN, k \in FieldKinds}
    \cup {<<FieldAt(1, e1, k1), FieldAt(2, e2, k2)>> :
            e1 \in BOOLEAN, k1 \in FieldKinds, e2 \in BOOLEAN, k2 \in FieldKinds}

\* A value of a scalar kind that is not the zero value.
NonZero(k) ==
    IF k = "Bool" THEN CBool(TRUE)
    ELSE IF k = "String" THEN CStr(<<120>>)
    ELSE IF k = "Float64" THEN CFloat(7)
    ELSE CInt(7)

\* The compiled structs of type fields.
StructValues(fields) ==
    {v \in [{fields[i].prop : i \in DOMAIN fields} ->
                UNION {{Zero(k), NonZero(k)} : k \in FieldKinds}] :
        \A i \in DOMAIN fields :
            v[fields[i].prop] \in {Zero(fields[i].typ), NonZero(fields[i].typ)}}

\* The host objects handed in: each of the keys A, B, b absent or present
\* with a number or a string.
HostObjects ==
    UNION {[keys -> {HNum(7), HStr(<<120>>)}] : keys \in SUBSET {"A", "B", "b"}}

\* A compiled struct waits to be externalized, a host object to be
\* internalized, for one struct descriptor.
InitStruct ==
    /\ InitCompiler
    /\ minify = FALSE
    /\ hostKind \in StructTypes
    /\ goVal \in StructValues(hostKind)
    /\ \E o \in HostObjects : hostVal = HObj(o)
    /\ goOut = <<>>
    /\ hostOut = <<>>
    /\ pc = "ready"

\* $externalize(v, t), t a struct
ExternalizeStruct ==
    /\ pc = "ready"
    /\ hostVal' = externalizeStruct(goVal, hostKind)
    /\ pc' = "externalized"
    /\ UNCHANGED <<compilerVars, hostOut, goVal, hostKind, goOut>>

\* $internalize(v, t), t a struct
InternalizeStruct ==
    /\ pc = "ready"
    /\ goOut' = internalizeStruct(hostVal, hostKind)
    /\ pc' = "internalized"
    /\ UNCHANGED <<compilerVars, hostOut, goVal, hostVal, hostKind>>

NextStruct == ExternalizeStruct \/ InternalizeStruct

SpecStruct == InitStruct /\ [][NextStruct]_vars

\* C11: for a struct with no host handle and no wrapper, $externalize gives
\* a host object whose keys are exactly the external names of the exported
\* fields; $internalize of a host object assigns the exported fields only:
\* every unexported field, and every exported field whose key the host
\* object lacks, is at the zero value of its type, whatever its kind.
C11_ExportedFieldsOnly ==
    /\ pc = "externalized" =>
            DOMAIN hostVal.props =
                {hostKind[i].name : i \in {j \in DOMAIN hostKind : hostKind[j].exported}}
    /\ pc = "internalized" =>
            \A i \in DOMAIN hostKind :
                LET f == hostKind[i]
                IN  (~f.exported \/ f.name \notin DOMAIN hostVal.props) =>
                        goOut[f.prop] = Zero(f.typ)

---------------------------------------------------------------------------
(* The value bridge: structs that hold a host handle.  A type descriptor   *)
(* is the handle type *js.Object, the kind Int, a pointer or a struct; a   *)
(* value of the handle type is the host value itself, a pointer to a       *)
(* struct is the struct object itself ($get returns it), any other pointer *)
(* is an object with $get, and nil is nil.                                 *)

MaxChain == 3

DHandle == [kind |-> "Handle"]
DInt == [kind |-> "Int"]
DPtr(elem) == [kind |-> "Ptr", elem |-> elem]
DStruct(fields) == [kind |-> "Struct", fields |-> fields]

CNil == [tag |-> "nil"]
CPtr(target) == [tag |-> "ptr", get |-> target]
CStruct(f) == [tag |-> "struct", f |-> f]

\* A TypeError or a runtime error thrown by a conversion.
HError == [tag |-> "error"]
\* makeWrapper(v)
HWrapped(v) == [tag |-> "wrapped", of |-> v]

\* v.$get(), with has = FALSE where v has no $get.
Deref(v) ==
    IF v.tag = "struct" THEN [has |-> TRUE, val |-> v]
    ELSE IF v.tag = "ptr" THEN [has |-> TRUE, val |-> v.get]
    ELSE [has |-> FALSE]

\* searchJsObject(v, t) of $externalize: the handle on the first-field
\* chain of v.
RECURSIVE searchJsObjectExt(_, _)
searchJsObjectExt(v, t) ==
    IF t.kind = "Handle" THEN [res |-> "found", val |-> v]
    ELSE IF t.kind = "Ptr"
    THEN IF v = CNil THEN [res |-> "none"]
         ELSE IF ~Deref(v).has THEN [res |-> "error"]
         ELSE searchJsObjectExt(Deref(v).val, t.elem)
    ELSE IF t.kind = "Struct"
    THEN IF t.fields = <<>> THEN [res |-> "none"]
         ELSE searchJsObjectExt(v.f[t.fields[1].prop], t.fields[1].typ)
    ELSE [res |-> "none"]

\* $externalize(v, t, makeWrapper) for the descriptors above; the loop over
\* the fields of a struct starts at i with the properties o.
RECURSIVE externalizeT(_, _, _)
RECURSIVE externalizeTFields(_, _, _, _, _)
externalizeT(v, t, makeWrapper) ==
    IF t.kind = "Handle" THEN v
    ELSE IF t.kind = "Int" THEN externalizeScalar(v, "Int")
    ELSE IF t.kind = "Ptr"
    THEN IF v = CNil THEN HNull
         ELSE IF ~Deref(v).has THEN HError
         ELSE externalizeT(Deref(v).val, t.elem, makeWrapper)
    ELSE LET o == searchJsObjectExt(v, t)
         IN  IF o.res = "error" THEN HError
             ELSE IF o.res = "found" THEN o.val
             ELSE IF makeWrapper THEN HWrapped(v)
             ELSE externalizeTFields(v, t.fields, 1, <<>>, makeWrapper)

externalizeTFields(v, fields, i, o, makeWrapper) ==
    IF i > Len(fields) THEN HObj(o)
    ELSE LET f == fields[i]
         IN  IF ~f.exported THEN externalizeTFields(v, fields, i + 1, o, makeWrapper)
             ELSE LET e == externalizeT(v.f[f.prop], f.typ, makeWrapper)
                  IN  IF e = HError THEN HError
                      ELSE externalizeTFields(v, fields, i + 1, Put(o, f.name, e),
                                              makeWrapper)

\* t.zero(), and new t.ptr() for a struct.
RECURSIVE ZeroT(_)
ZeroT(t) ==
    IF t.kind = "Int" THEN CInt(0)
    ELSE IF t.kind = "Struct"
    THEN CStruct([p \in {t.fields[i].prop : i \in DOMAIN t.fields} |->
                    ZeroT((CHOOSE f \in Range(t.fields) : f.prop = p).typ)])
    ELSE CNil

\* searchJsObject(t) of $internalize(v, ...): the nested structs with v in
\* the handle field the first-field chain of t ends in.
RECURSIVE searchJsObjectInt(_, _)
searchJsObjectInt(v, t) ==
    IF t.kind = "Handle" THEN [res |-> "found", val |-> v]
    ELSE IF t.kind = "Ptr" THEN searchJsObjectInt(v, t.elem)
    ELSE IF t.kind = "Struct"
    THEN IF t.fields = <<>> THEN [res |-> "none"]
         ELSE LET f == t.fields[1]
                  o == searchJsObjectInt(v, f.typ)
              IN  IF o.res = "found"
                  THEN [res |-> "found",
                        val |-> CStruct([ZeroT(t).f EXCEPT ![f.prop] = o.val])]
                  ELSE [res |-> "none"]
    ELSE [res |-> "none"]

\* $internalize(v, t) for the descriptors above and a host value v with no
\* back-reference; the loop over the fields of a struct starts at i with
\* the struct n.  (A pointer to something that is not a struct falls into
\* the slice case; here its host value is null or undefined.)
RECURSIVE internalizeT(_, _)
RECURSIVE internalizeTFields(_, _, _, _)
internalizeT(v, t) ==
    IF t.kind = "Handle" THEN v
    ELSE IF t.kind = "Int" THEN internalizeScalar(v, "Int")
    ELSE IF t.kind = "Ptr"
    THEN IF t.elem.kind = "Struct" THEN internalizeT(v, t.elem)
         ELSE CNil
    ELSE LET o == searchJsObjectInt(v, t)
         IN  IF o.res = "found" THEN o.val
             ELSE internalizeTFields(v, t.fields, 1, ZeroT(t))

internalizeTFields(v, fields, i, n) ==
    IF i > Len(fields) THEN n
    ELSE LET f == fields[i]
         IN  IF ~f.exported THEN internalizeTFields(v, fields, i + 1, n)
             ELSE IF v.tag \in {"undefined", "null"} THEN HError
             ELSE LET e == internalizeT(IF v.tag = "obj" THEN GetProp(v, f.name)
                                        ELSE HUndefined, f.typ)
                  IN  IF e = HError THEN HError
                      ELSE internalizeTFields(v, fields, i + 1,
                               CStruct([n.f EXCEPT ![f.prop] = e]))

\* The descriptors whose first-field chain is at most n fields and pointers
\* long: a struct has the first field A, alone or followed by B int.
FirstField(t) == [name |-> "A", prop |-> "A", exported |-> TRUE, typ |-> t]
SecondField == [name |-> "B", prop |-> "B", exported |-> TRUE, typ |-> DInt]

RECURSIVE ChainTypes(_)
ChainTypes(n) ==
    IF n = 0 THEN {DHandle, DInt, DStruct(<<>>)}
    ELSE LET below == ChainTypes(n - 1)
         IN  below
             \cup {DPtr(t) : t \in {u \in below : u.kind \in {"Handle", "Struct"}}}
             \cup {DStruct(<<FirstField(t)>>) : t \in below}
             \cup {DStruct(<<FirstField(t), SecondField>>) : t \in below}

\* The host values handed in as handles.
Handles == {HObj([x |-> HNum(1)]), HNum(7), HNull, HUndefined}

\* The compiled values of type t.
RECURSIVE ValuesOf(_)
ValuesOf(t) ==
    IF t.kind = "Handle" THEN Handles
    ELSE IF t.kind = "Int" THEN {CInt(7)}
    ELSE IF t.kind = "Ptr"
    THEN {CNil} \cup (IF t.elem.kind = "Struct" THEN ValuesOf(t.elem)
                      ELSE {CPtr(x) : x \in ValuesOf(t.elem)})
    ELSE IF t.fields = <<>> THEN {CStruct(<<>>)}
    ELSE IF Len(t.fields) = 1
    THEN {CStruct([p \in {"A"} |-> a]) : a \in ValuesOf(t.fields[1].typ)}
    ELSE {CStruct([p \in {"A", "B"} |-> IF p = "A" THEN a ELSE CInt(7)]) :
            a \in ValuesOf(t.fields[1].typ)}

\* A compiled struct waits to be externalized, a host value to be
\* internalized, for one struct descriptor, with or without a wrapper
\* factory.
InitChain ==
    /\ InitCompiler
    /\ minify = FALSE
    /\ \E t \in {u \in ChainTypes(MaxChain) : u.kind = "Struct"}, w \in BOOLEAN :
            /\ hostKind = [t |-> t, makeWrapper |-> w]
            /\ goVal \in ValuesOf(t)
    /\ hostVal \in Handles
    /\ goOut = <<>>
    /\ hostOut = <<>>
    /\ pc = "ready"

\* $externalize(v, t, makeWrapper), t a struct
ExternalizeChain ==
    /\ pc = "ready"
    /\ hostOut' = externalizeT(goVal, hostKind.t, hostKind.makeWrapper)
    /\ pc' = "externalized"
    /\ UNCHANGED <<compilerVars, goVal, hostVal, hostKind, goOut>>

\* $internalize(v, t), t a struct
InternalizeChain ==
    /\ pc = "ready"
    /\ goOut' = internalizeT(hostVal, hostKind.t)
    /\ pc' = "internalized"
    /\ UNCHANGED <<compilerVars, goVal, hostVal, hostKind, hostOut>>

\* $externalize of what $internalize returned
ExternalizeBack ==
    /\ pc = "internalized"
    /\ goOut # HError
    /\ hostOut' = externalizeT(goOut, hostKind.t, hostKind.makeWrapper)
    /\ pc' = "back"
    /\ UNCHANGED <<compilerVars, goVal, hostVal, hostKind, goOut>>

NextChain == ExternalizeChain \/ InternalizeChain \/ ExternalizeBack

SpecChain == InitChain /\ [][NextChain]_vars

\* The first-field chain of t ends in the handle type.
RECURSIVE EndsInHandle(_)
EndsInHandle(t) ==
    IF t.kind = "Handle" THEN TRUE
    ELSE IF t.kind = "Ptr" THEN EndsInHandle(t.elem)
    ELSE IF t.kind = "Struct" THEN t.fields # <<>> /\ EndsInHandle(t.fields[1].typ)
    ELSE FALSE

\* What the innermost handle field of v holds: the first fields are
\* followed, the pointers read; there is none behind a nil pointer or
\* behind a value that is no pointer.
RECURSIVE InnermostHandle(_, _)
InnermostHandle(v, t) ==
    IF t.kind = "Handle" THEN [held |-> TRUE, val |-> v]
    ELSE IF t.kind = "Ptr"
    THEN IF v = CNil \/ ~Deref(v).has THEN [held |-> FALSE]
         ELSE InnermostHandle(Deref(v).val, t.elem)
    ELSE InnermostHandle(v.f[t.fields[1].prop], t.fields[1].typ)

\* C12: for a struct descriptor T whose first-field chain, through nested
\* structs and pointers, ends in the handle type, $externalize(v, T) is the
\* value held in the innermost handle field, never a generic object or a
\* wrapper; $internalize(h, T) holds h in the innermost handle field; and
\* $externalize($internalize(h, T), T) is h.
C12_HandlePromotion ==
    EndsInHandle(hostKind.t) =>
        /\ pc = "externalized" =>
                InnermostHandle(goVal, hostKind.t) = [held |-> TRUE, val |-> hostOut]
        /\ pc = "internalized" =>
                /\ goOut # HError
                /\ InnermostHandle(goOut, hostKind.t) = [held |-> TRUE, val |-> hostVal]
        /\ pc = "back" => hostOut = hostVal

---------------------------------------------------------------------------
(* The value bridge: host objects that refer to one another.  The host     *)
(* objects live in a heap and are referred to by HRef(id); the compiled    *)
(* structs and maps $internalize builds live in a heap of their own and    *)
(* are referred to by CRef(id), so that two results are the same identity  *)
(* exactly when they are the same CRef.  The descriptors are named, a      *)
(* recursive type refers to itself by name.                                *)

\* The frames the host's call stack holds, and the host objects.
MaxStack == 8
MaxObjects == 2

HRef(id) == [tag |-> "ref", id |-> id]
CRef(id) == [tag |-> "cref", id |-> id]
CSlice(elems) == [tag |-> "slice", elems |-> elems]
\* new T(val): a value in an interface, with its dynamic type.
CBox(typ, val) == [tag |-> "box", typ |-> typ, boxed |-> val]

Field(name, typ) == [name |-> name, prop |-> name, exported |-> TRUE, typ |-> typ]

\* type NodeV struct { Val int; Next *NodeV }
\* type NodeN struct { Next *NodeN; Val int }
\* type Tree struct { Kids []Tree }
\* map[string]interface{}
TypeTable ==
    [NodeV |-> [kind |-> "Struct",
                fields |-> <<Field("Val", "Int"), Field("Next", "PtrNodeV")>>],
     PtrNodeV |-> [kind |-> "Ptr", elem |-> "NodeV"],
     NodeN |-> [kind |-> "Struct",
                fields |-> <<Field("Next", "PtrNodeN"), Field("Val", "Int")>>],
     PtrNodeN |-> [kind |-> "Ptr", elem |-> "NodeN"],
     Tree |-> [kind |-> "Struct", fields |-> <<Field("Kids", "SliceTree")>>],
     SliceTree |-> [kind |-> "Slice", elem |-> "Tree"],
     MapAny |-> [kind |-> "Map", key |-> "String", elem |-> "Any"],
     Any |-> [kind |-> "Interface"],
     SliceAny |-> [kind |-> "Slice", elem |-> "Any"],
     Int |-> [kind |-> "Int"],
     Float64 |-> [kind |-> "Float64"],
     String |-> [kind |-> "String"]]

\* The state of one top-level $internalize: the compiled heap, the seen
\* maps made so far (a call without one makes its own), the host objects
\* that reached the kind dispatch with the descriptor they reached it for,
\* and whether the call stack overflowed or a TypeError was thrown.
NoConversion ==
    [heap |-> <<>>, seens |-> <<>>, log |-> <<>>, overflow |-> FALSE, error |-> FALSE]

Failed(st) == st.overflow \/ st.error
Overflow(st) == [st |-> [st EXCEPT !.overflow = TRUE], val |-> CNil]
Throw(st) == [st |-> [st EXCEPT !.error = TRUE], val |-> CNil]

\* $keys(v): the keys of a host object, in order.
KeyOrder == <<"Val", "Next", "Kids">>
SortedKeys(keys) == SelectSeq(KeyOrder, LAMBDA k : k \in keys)

\* v[key] of a host value in the heap objs.
HeapProp(objs, v, key) ==
    IF v.tag = "ref" /\ key \in DOMAIN objs[v.id] THEN objs[v.id][key] ELSE HUndefined

\* searchJsObject(t) of $internalize for a named descriptor: it follows
\* the first fields and the pointers of the descriptor, one frame each.
RECURSIVE searchJsObjectNamed(_, _)
searchJsObjectNamed(t, fuel) ==
    LET d == TypeTable[t]
    IN  IF fuel = 0 THEN "overflow"
        ELSE IF d.kind = "Ptr" THEN searchJsObjectNamed(d.elem, fuel - 1)
        ELSE IF d.kind = "Struct" /\ d.fields # <<>>
        THEN searchJsObjectNamed(d.fields[1].typ, fuel - 1)
        ELSE "none"

\* $internalize(v, t, recv, seen, makeWrapper) of a host value v without a
\* back-reference: seen = 0 stands for undefined, fuel is the number of
\* frames the stack still takes.  internalizeStructFields, internalizeElems
\* and internalizeEntries are its loops over the fields of a struct, the
\* elements of an array and the keys of an object (the keys are ASCII
\* strings, which $internalize returns as they are).
\* The result r of a conversion as the value of an interface of dynamic
\* type typ.
Boxed(typ, r) == [st |-> r.st, val |-> CBox(typ, r.val)]

\* s[field.$prop] = $internalize(...): the state after the result r of a
\* conversion is stored in the field of the struct id.
SetField(id, prop, r) ==
    IF Failed(r.st) THEN r.st ELSE [r.st EXCEPT !.heap[id].f[prop] = r.val]

\* $setKeyFor / m.set: the state after the result r of a conversion is
\* stored under the key of the map id.
SetKey(id, key, r) ==
    IF Failed(r.st) THEN r.st ELSE [r.st EXCEPT !.heap[id].entries = Put(@, key, r.val)]

RECURSIVE internalizeSeen(_, _, _, _, _, _)
RECURSIVE internalizeElemsFrom(_, _, _, _, _, _, _)
RECURSIVE internalizeKind(_, _, _, _, _, _)
RECURSIVE internalizeStructFields(_, _, _, _, _, _, _, _)
RECURSIVE internalizeElems(_, _, _, _, _, _, _)
RECURSIVE internalizeEntries(_, _, _, _, _, _, _, _)

internalizeSeen(objs, v, t, seen, st, fuel) ==
    IF Failed(st) THEN [st |-> st, val |-> CNil]
    ELSE IF fuel = 0 THEN Overflow(st)
    ELSE LET st1 == IF seen = 0 THEN [st EXCEPT !.seens = Append(@, <<>>)] ELSE st
             s == IF seen = 0 THEN Len(st1.seens) ELSE seen
         IN  IF <<t, v>> \in DOMAIN st1.seens[s]
             THEN [st |-> st1, val |-> st1.seens[s][<<t, v>>]]
             ELSE internalizeKind(objs, v, t, s,
                      IF v.tag = "ref"
                      THEN [st1 EXCEPT !.log = Append(@, <<t, v.id>>)] ELSE st1,
                      fuel)

internalizeKind(objs, v, t, s, st, fuel) ==
    LET d == TypeTable[t]
    IN  IF d.kind \in {"Int", "Float64", "String"}
        THEN [st |-> st, val |-> internalizeScalar(v, d.kind)]
        ELSE IF d.kind = "Interface"
        THEN IF v.tag = "null" THEN [st |-> st, val |-> CNil]
             ELSE IF v.tag = "undefined"
             THEN [st |-> st, val |-> CBox("Handle", HUndefined)]
             ELSE IF v.tag \in {"num", "nan"}
             THEN [st |-> st, val |-> CBox("Float64", internalizeScalar(v, "Float64"))]
             ELSE IF v.tag = "str"
             THEN [st |-> st, val |-> CBox("String", internalizeScalar(v, "String"))]
             ELSE IF v.tag = "bool"
             THEN [st |-> st, val |-> CBox("Bool", internalizeScalar(v, "Bool"))]
             ELSE IF v.tag = "arr"
             THEN \* the seen map is not handed on
                  Boxed("SliceAny", internalizeSeen(objs, v, "SliceAny", 0, st, fuel - 1))
             ELSE Boxed("MapAny", internalizeSeen(objs, v, "MapAny", s, st, fuel - 1))
        ELSE IF d.kind = "Map"
        THEN IF v.tag # "ref" THEN Throw(st)
             ELSE LET id == Len(st.heap) + 1
                      st1 == [st EXCEPT
                                !.heap = Append(@, [kind |-> "map", entries |-> <<>>]),
                                !.seens[s] = Put(@, <<t, v>>, CRef(id))]
                  IN  internalizeEntries(objs, v, SortedKeys(DOMAIN objs[v.id]), 1,
                                         id, s, st1, fuel)
        ELSE IF d.kind = "Ptr" /\ TypeTable[d.elem].kind = "Struct"
        THEN \* the seen map is not handed on
             internalizeSeen(objs, v, d.elem, 0, st, fuel - 1)
        ELSE IF d.kind \in {"Ptr", "Slice"}
        THEN IF v.tag \in {"null", "undefined"} THEN [st |-> st, val |-> CNil]
             ELSE IF v.tag # "arr" THEN Throw(st)
             ELSE \* the seen map is not handed on
                  internalizeElems(objs, v.elems, 1, d.elem, <<>>, st, fuel)
        ELSE \* a struct
             IF searchJsObjectNamed(t, fuel - 1) = "overflow" THEN Overflow(st)
             ELSE IF v.tag \in {"null", "undefined"} /\ d.fields # <<>> THEN Throw(st)
             ELSE LET id == Len(st.heap) + 1
                      zero == [p \in {d.fields[i].prop : i \in DOMAIN d.fields} |->
                                 IF p = "Val" THEN CInt(0) ELSE CNil]
                      st1 == [st EXCEPT
                                !.heap = Append(@, [kind |-> "struct", f |-> zero])]
                  IN  internalizeStructFields(objs, v, d.fields, 1, id, s, st1, fuel)

internalizeStructFields(objs, v, fields, i, id, s, st, fuel) ==
    IF Failed(st) THEN [st |-> st, val |-> CNil]
    ELSE IF i > Len(fields) THEN [st |-> st, val |-> CRef(id)]
    ELSE internalizeStructFields(objs, v, fields, i + 1, id, s,
             SetField(id, fields[i].prop,
                      internalizeSeen(objs, HeapProp(objs, v, fields[i].name),
                                      fields[i].typ, s, st, fuel - 1)),
             fuel)

internalizeElems(objs, elems, i, t, out, st, fuel) ==
    IF Failed(st) THEN [st |-> st, val |-> CNil]
    ELSE IF i > Len(elems) THEN [st |-> st, val |-> CSlice(out)]
    ELSE internalizeElemsFrom(objs, elems, i + 1, t, out,
                              internalizeSeen(objs, elems[i], t, 0, st, fuel - 1), fuel)

internalizeElemsFrom(objs, elems, i, t, out, r, fuel) ==
    internalizeElems(objs, elems, i, t, Append(out, r.val), r.st, fuel)

internalizeEntries(objs, v, keys, i, id, s, st, fuel) ==
    IF Failed(st) THEN [st |-> st, val |-> CNil]
    ELSE IF i > Len(keys) THEN [st |-> st, val |-> CRef(id)]
    ELSE internalizeEntries(objs, v, keys, i + 1, id, s,
             SetKey(id, keys[i],
                    internalizeSeen(objs, HeapProp(objs, v, keys[i]), "Any", s, st,
                                    fuel - 1)),
             fuel)

\* The host objects: each has Val, and may refer to a host object with
\* Next or hold one in the array Kids.
ObjectShapes(n) ==
    {[k \in {"Val"} |-> HNum(7)],
     [k \in {"Val", "Next"} |-> IF k = "Val" THEN HNum(7) ELSE HNull]}
    \cup {[k \in {"Val", "Next"} |-> IF k = "Val" THEN HNum(7) ELSE HRef(j)] : j \in 1..n}
    \cup {[k \in {"Val", "Kids"} |-> IF k = "Val" THEN HNum(7) ELSE HArr(<<HRef(j)>>)] :
            j \in 1..n}

GraphTypes == {"NodeV", "NodeN", "Tree", "MapAny"}

\* The host object 1 of a heap waits to be internalized for a descriptor.
InitGraph ==
    /\ InitCompiler
    /\ minify = FALSE
    /\ hostKind \in GraphTypes
    /\ \E n \in 1..MaxObjects : \E objs \in [1..n -> ObjectShapes(n)] :
            hostVal = [objs |-> objs, root |-> HRef(1)]
    /\ goVal = <<>>
    /\ goOut = <<>>
    /\ hostOut = <<>>
    /\ pc = "ready"

\* a top-level $internalize(v, t)
InternalizeGraph ==
    /\ pc = "ready"
    /\ goOut' = internalizeSeen(hostVal.objs, hostVal.root, hostKind, 0,
                                NoConversion, MaxStack)
    /\ pc' = "done"
    /\ UNCHANGED <<compilerVars, goVal, hostVal, hostKind, hostOut>>

NextGraph == InternalizeGraph

SpecGraph == InitGraph /\ [][NextGraph]_vars

\* The host object handed in refers to itself directly, in the property
\* the recursive field of the descriptor reads.
SelfReferring ==
    LET o == hostVal.objs[hostVal.root.id]
    IN  IF hostKind = "Tree" THEN "Kids" \in DOMAIN o /\ o["Kids"] = HArr(<<hostVal.root>>)
        ELSE "Next" \in DOMAIN o /\ o["Next"] = hostVal.root

\* The recursive field of the result is the result itself.
SelfField ==
    LET obj == goOut.st.heap[goOut.val.id]
    IN  IF hostKind = "Tree" THEN obj.f["Kids"] = CSlice(<<goOut.val>>)
        ELSE IF hostKind = "MapAny" THEN obj.entries["Next"] = CBox("MapAny", goOut.val)
        ELSE obj.f["Next"] = goOut.val

\* C13: a top-level $internalize of a host object that refers to itself
\* directly, into a recursively defined descriptor (a struct with a field
\* of pointer-to-itself type or a slice-of-itself field, or a map of empty
\* interfaces), terminates: the stack does not overflow and nothing is
\* thrown; the self-referential field of the result is the result itself;
\* and no host object is converted twice for the same descriptor.
C13_SelfReferenceTerminates ==
    (pc = "done" /\ SelfReferring) =>
        /\ ~goOut.st.overflow
        /\ ~goOut.st.error
        /\ SelfField
        /\ \A i, j \in DOMAIN goOut.st.log :
                goOut.st.log[i] = goOut.st.log[j] => i = j

---------------------------------------------------------------------------
(* The value bridge: compiled functions handed to the host.  A compiled    *)
(* function is a name with a descriptor [params, variadic, results]; the   *)
(* wrappers made so far are numbered in the order they were made.          *)

MaxInvocations == 2
MaxArgs == 3

\* func(int8, string) int8, func(int8, ...string) (int8, string), func()
FuncTypes ==
    [unary |-> [params |-> <<"Int8", "String">>, variadic |-> FALSE,
                results |-> <<"Int8">>],
     variadic |-> [params |-> <<"Int8", "String">>, variadic |-> TRUE,
                   results |-> <<"Int8", "String">>],
     void |-> [params |-> <<>>, variadic |-> FALSE, results |-> <<>>]]

\* The compiled functions and the descriptor of each.
Funcs == {"f", "h", "k"}
FuncType(fn) ==
    IF fn = "f" THEN FuncTypes["unary"]
    ELSE IF fn = "h" THEN FuncTypes["variadic"]
    ELSE FuncTypes["void"]

\* $throwNilPointerError: the nil function value.
NilFunc == "nil"

\* What a compiled function returns: the number of its arguments as int8,
\* and the string "é".
Apply(t, args) ==
    [i \in DOMAIN t.results |->
        IF t.results[i] = "Int8" THEN CInt(Len(args)) ELSE CStr(<<195, 169>>)]

\* $copyIfRequired(v, typ) for typ of a scalar kind: there is nothing to
\* copy.
copyIfRequired(v, typ) == v

\* arguments[i], undefined past the last argument.
Argument(arguments, i) ==
    IF i \in DOMAIN arguments THEN arguments[i] ELSE HUndefined

\* The inner loop of the wrapper: the arguments from j on, internalized
\* for the element type vt.
RECURSIVE wrapperVarargs(_, _, _)
wrapperVarargs(arguments, vt, j) ==
    IF j > Len(arguments) THEN <<>>
    ELSE <<internalizeScalar(arguments[j], vt)>> \o wrapperVarargs(arguments, vt, j + 1)

\* The outer loop of the wrapper from parameter i on, args being the
\* compiled arguments so far.
RECURSIVE wrapperArgs(_, _, _, _)
wrapperArgs(t, arguments, i, args) ==
    IF i > Len(t.params) THEN args
    ELSE IF t.variadic /\ i = Len(t.params)
    THEN Append(args, CSlice(wrapperVarargs(arguments, t.params[i], i)))
    ELSE wrapperArgs(t, arguments, i + 1,
                     Append(args, internalizeScalar(Argument(arguments, i), t.params[i])))

\* What the wrapper returns for the result of the call.
wrapperResult(t, result) ==
    IF Len(t.results) = 0 THEN HUndefined
    ELSE IF Len(t.results) = 1
    THEN externalizeScalar(copyIfRequired(result[1], t.results[1]), t.results[1])
    ELSE HArr([i \in DOMAIN t.results |->
                externalizeScalar(copyIfRequired(result[i], t.results[i]), t.results[i])])

\* A function value that makes a new wrapper at every externalization.
NeedsWrapperAlways(v) == TRUE

\* v.$externalizeWrapper === undefined
NeedsWrapper(v) == v.wrapper = 0

\* The host's argument lists.
HostArgs == {HNum(300), HStr(<<233>>)}
ArgLists == UNION {[1..n -> HostArgs] : n \in 0..MaxArgs}

\* No function has a wrapper and none was called.
InitFunc ==
    /\ InitCompiler
    /\ minify = FALSE
    /\ goVal = [fn \in Funcs |-> [wrapper |-> 0, returned |-> {}]]
    /\ hostVal = <<>>
    /\ hostKind = FuncType("f")
    /\ goOut = [calls |-> 0, last |-> <<>>]
    /\ hostOut = <<>>
    /\ pc = [op |-> "none"]

\* $externalizeFunction(v, t, passThis, makeWrapper)
ExternalizeFunction ==
    \E fn \in Funcs \cup {NilFunc} :
        /\ hostKind' = IF fn = NilFunc THEN hostKind ELSE FuncType(fn)
        /\ IF fn = NilFunc
           THEN /\ hostOut' = HNull
                /\ pc' = [op |-> "externalize", fn |-> fn, ret |-> 0]
                /\ UNCHANGED <<goVal, hostVal>>
           ELSE \E make \in {NeedsWrapper(goVal[fn])} :
                    \E w \in {IF make THEN Len(hostVal) + 1 ELSE goVal[fn].wrapper} :
                        /\ hostVal' = IF make
                                      THEN Append(hostVal, [fn |-> fn, t |-> FuncType(fn)])
                                      ELSE hostVal
                        /\ goVal' = [goVal EXCEPT ![fn] =
                                        [wrapper |-> w, returned |-> @.returned \cup {w}]]
                        /\ hostOut' = [tag |-> "wrapper", id |-> w]
                        /\ pc' = [op |-> "externalize", fn |-> fn, ret |-> w]
        /\ UNCHANGED <<compilerVars, goOut>>

\* the host calls the wrapper w with arguments (the receiver, this or
\* undefined, is left out)
InvokeWrapper ==
    /\ goOut.calls < MaxInvocations
    /\ \E w \in DOMAIN hostVal, arguments \in ArgLists :
        \E args \in {wrapperArgs(hostVal[w].t, arguments, 1, <<>>)} :
            /\ goOut' = [calls |-> goOut.calls + 1,
                         last |-> [fn |-> hostVal[w].fn, args |-> args]]
            /\ hostOut' = wrapperResult(hostVal[w].t, Apply(hostVal[w].t, args))
            /\ pc' = [op |-> "invoke", w |-> w, arguments |-> arguments,
                      before |-> goOut.calls]
            /\ UNCHANGED <<compilerVars, goVal, hostVal, hostKind>>

NextFunc == ExternalizeFunction \/ InvokeWrapper

SpecFunc == InitFunc /\ [][NextFunc]_vars

\* The compiled argument the claim asks for at parameter i.
ClaimedArg(t, arguments, i) ==
    IF t.variadic /\ i = Len(t.params)
    THEN CSlice([j \in 1..(IF Len(arguments) >= i THEN Len(arguments) - i + 1 ELSE 0) |->
                    internalizeScalar(arguments[i + j - 1], t.params[i])])
    ELSE internalizeScalar(Argument(arguments, i), t.params[i])

\* C14: all externalizations of a non-nil function value return the same
\* wrapper; invoking the wrapper internalizes each host argument for the
\* matching parameter, the arguments from the variadic position on gathered
\* in one slice, calls the function once, and returns its externalized
\* result (nothing for no result, the array of the externalized results
\* for several).
C14_OneWrapperPerFunction ==
    /\ \A fn \in Funcs : Cardinality(goVal[fn].returned) <= 1
    /\ (pc.op = "externalize" /\ pc.fn # NilFunc) => pc.ret = goVal[pc.fn].wrapper
    /\ pc.op = "invoke" =>
        LET t == hostVal[pc.w].t
            args == [i \in DOMAIN t.params |-> ClaimedArg(t, pc.arguments, i)]
        IN  /\ goOut.calls = pc.before + 1
            /\ goOut.last.fn = hostVal[pc.w].fn
            /\ goOut.last.args = args
            /\ hostOut = IF t.results = <<>> THEN HUndefined
                         ELSE IF Len(t.results) = 1
                         THEN externalizeScalar(Apply(t, args)[1], t.results[1])
                         ELSE HArr([i \in DOMAIN t.results |->
                                      externalizeScalar(Apply(t, args)[i], t.results[i])])

\* The variadic function was externalized and its wrapper called twice,
\* the second time with three arguments.
C14_Witness ==
    /\ pc.op = "invoke"
    /\ hostVal[pc.w].fn = "h"
    /\ Len(pc.arguments) = 3
    /\ goOut.calls = 2
    /\ Len(goOut.last.args[2].elems) = 2
    /\ hostOut = HArr(<<HNum(2), HStr(<<233>>)>>)

---------------------------------------------------------------------------
(* The value bridge: maps.  A compiled map and a host object are the       *)
(* sequences of their entries [k, v] in insertion order, no key twice; a   *)
(* host key is a host string.                                              *)

MaxEntries == 2

\* "__proto__"
StrProto == <<95, 95, 112, 114, 111, 116, 111, 95, 95>>

\* The entry of key k, 0 when there is none.
IndexOfKey(entries, k) ==
    IF \E i \in DOMAIN entries : entries[i].k = k
    THEN CHOOSE i \in DOMAIN entries : entries[i].k = k
    ELSE 0

\* m.set(key, value), o[key] = value of an own property: the value of an
\* entry that is there is replaced, a new entry comes last.
SetEntry(entries, k, v) ==
    IF IndexOfKey(entries, k) # 0
    THEN [entries EXCEPT ![IndexOfKey(entries, k)] = [k |-> k, v |-> v]]
    ELSE Append(entries, [k |-> k, v |-> v])

\* m[key] = value for an object m made by {} and a value that is not an
\* object: the key is String(key); "__proto__" names the accessor of
\* Object.prototype, which ignores the value and makes no own property.
HostSet(o, key, value) ==
    IF HostToString(key) = StrProto THEN o
    ELSE SetEntry(o, HostToString(key), value)

\* The loop of the map case of $externalize from entry i on.
RECURSIVE externalizeEntries(_, _, _, _, _)
externalizeEntries(entries, keyKind, elemKind, i, o) ==
    IF i > Len(entries) THEN o
    ELSE externalizeEntries(entries, keyKind, elemKind, i + 1,
             HostSet(o, externalizeScalar(entries[i].k, keyKind),
                     externalizeScalar(entries[i].v, elemKind)))

\* $externalize(v, t) for a map t that is not nil.
externalizeMap(v, keyKind, elemKind) ==
    externalizeEntries(v, keyKind, elemKind, 1, <<>>)

\* The loop of the map case of $internalize from key i on; $keys(v) are
\* the own keys of v.
RECURSIVE internalizeKeys(_, _, _, _, _)
internalizeKeys(o, keyKind, elemKind, i, entries) ==
    IF i > Len(o) THEN entries
    ELSE internalizeKeys(o, keyKind, elemKind, i + 1,
             SetEntry(entries, internalizeScalar(HStr(o[i].k), keyKind),
                      internalizeScalar(o[i].v, elemKind)))

\* $internalize(v, t) for a map t and a host object v.
internalizeMap(o, keyKind, elemKind) == internalizeKeys(o, keyKind, elemKind, 1, <<>>)

\* The keys and the values of the compiled maps.
MapKeys(keyKind) ==
    IF keyKind = "String"
    THEN {CStr(<<97>>), CStr(<<98>>), CStr(StrProto), CStr(<<255>>), CStr(<<239, 191, 189>>)}
    ELSE IF keyKind = "Bool" THEN {CBool(TRUE), CBool(FALSE)}
    ELSE {CInt(1), CInt(2), CInt(-1)}

MapValues == {CInt(1), CInt(2)}

\* The compiled maps of at most MaxEntries entries.
MapsOf(keyKind) ==
    {mp \in UNION {[1..n -> [k : MapKeys(keyKind), v : MapValues]] : n \in 0..MaxEntries} :
        \A i, j \in DOMAIN mp : mp[i].k = mp[j].k => i = j}

\* A compiled map that is not nil waits to be externalized.
InitMap ==
    /\ InitCompiler
    /\ minify = FALSE
    /\ \E keyKind \in {"String", "Int", "Bool"} :
            /\ hostKind = [key |-> keyKind, elem |-> "Int8"]
            /\ goVal \in MapsOf(keyKind)
    /\ hostVal = <<>>
    /\ goOut = <<>>
    /\ hostOut = <<>>
    /\ pc = "ready"

\* $externalize(v, t), t a map
ExternalizeMap ==
    /\ pc = "ready"
    /\ hostVal' = externalizeMap(goVal, hostKind.key, hostKind.elem)
    /\ pc' = "externalized"
    /\ UNCHANGED <<compilerVars, goVal, hostKind, goOut, hostOut>>

\* $internalize(v, t), t a map
InternalizeMap ==
    /\ pc = "externalized"
    /\ goOut' = internalizeMap(hostVal, hostKind.key, hostKind.elem)
    /\ pc' = "done"
    /\ UNCHANGED <<compilerVars, goVal, hostVal, hostKind, hostOut>>

NextMap == ExternalizeMap \/ InternalizeMap

SpecMap == InitMap /\ [][NextMap]_vars

\* The key/value pairs of a map.
Pairs(entries) == Range(entries)

\* C15: for a compiled map m that is not nil, internalize(externalize(m))
\* holds exactly the key/value pairs of m, and no two keys of m collapse
\* into one host key: the host object has as many keys as m.
C15_MapRoundTrip ==
    /\ pc = "externalized" => Len(hostVal) = Len(goVal)
    /\ pc = "done" => Pairs(goOut) = Pairs(goVal)

---------------------------------------------------------------------------
(* The value bridge: integer host numbers into the integer kinds of at     *)
(* most 32 bits, the platform-width ones included.                         *)

WideIntKinds == IntKinds \cup {"Int", "Uint", "Uintptr"}

Unsigned(kind) == kind \in {"Uint", "Uint8", "Uint16", "Uint32", "Uintptr"}

Width(kind) ==
    IF kind \in {"Int8", "Uint8"} THEN 8
    ELSE IF kind \in {"Int16", "Uint16"} THEN 16
    ELSE 32

\* The integer host numbers handed in.
HostIntegers ==
    {-2147483647, -70000, -65536, -32769, -32768, -300, -129, -128, -1, 0, 1, 127,
     128, 255, 256, 32767, 32768, 65535, 65536, 70000, 2147483647}

\* An integer host number waits to be internalized for an integer kind.
\* (Numbers are signed 32-bit here, so Uint32 and Uintptr, whose results
\* for a negative number lie above, get the numbers from 0 on.)
InitWide ==
    /\ InitCompiler
    /\ minify = FALSE
    /\ hostKind \in WideIntKinds
    /\ \E n \in HostIntegers :
            /\ hostKind \in {"Uint32", "Uintptr"} => n >= 0
            /\ hostVal = HNum(n)
    /\ goVal = <<>>
    /\ goOut = <<>>
    /\ hostOut = <<>>
    /\ pc = "ready"

\* $internalize(v, t), t of an integer kind
InternalizeWide ==
    /\ pc = "ready"
    /\ goOut' = internalizeScalar(hostVal, hostKind)
    /\ pc' = "done"
    /\ UNCHANGED <<compilerVars, goVal, hostVal, hostKind, hostOut>>

NextWide == InternalizeWide

SpecWide == InitWide /\ [][NextWide]_vars

\* C16: for every integer kind of at most 32 bits, Int, Uint and Uintptr
\* included, $internalize of an integer host number is an integer inside
\* the range of the kind (not negative for an unsigned kind) and congruent
\* to the number modulo 2^width.
C16_InsideRange ==
    pc = "done" =>
        /\ goOut.tag = "int"
        /\ Unsigned(hostKind) => goOut.int >= 0
        /\ Width(hostKind) < 32 =>
            /\ goOut.int < (IF Unsigned(hostKind) THEN Pow2(Width(hostKind))
                            ELSE Pow2(Width(hostKind) - 1))
            /\ goOut.int >= (IF Unsigned(hostKind) THEN 0
                             ELSE -Pow2(Width(hostKind) - 1))
            /\ goOut.int % Pow2(Width(hostKind)) = hostVal.num % Pow2(Width(hostKind))
        /\ (Width(hostKind) = 32 /\ (hostVal.num >= 0 \/ ~Unsigned(hostKind))) =>
                goOut.int = hostVal.num

---------------------------------------------------------------------------
(* The value bridge: fixed-length arrays and host values with a            *)
(* back-reference.  An array descriptor is [len, elem]; a host value with  *)
(* a back-reference holds a compiled value and its type in                 *)
(* __internal_object__.                                                    *)

MaxArrayLen == 2

DArray(len, elem) == [kind |-> "Array", len |-> len, elem |-> elem]
CArray(elems) == [tag |-> "array", elems |-> elems]
HBackRef(typ, val) == [tag |-> "backref", typ |-> typ, internal |-> val]

\* The outcome of a conversion: a value, or a fatal error and no value.
Returns(val) == [ok |-> TRUE, val |-> val]
Throws == [ok |-> FALSE]

\* A host value whose back-reference is never looked at.
HasBackRefNever(v) == FALSE

\* v && v.__internal_object__ !== undefined
HasBackRef(v) == v.tag = "backref"

\* $assertType(v.__internal_object__, t, false): the value when its type
\* is t, a panic when not.
assertType(v, t) == IF v.typ = t THEN Returns(v.internal) ELSE Throws

\* v.length, -1 standing for undefined.
HostLength(v) == IF v.tag = "arr" THEN Len(v.elems) ELSE -1

\* A host value whose length passes for any declared length.
WrongLengthNever(v, t) == FALSE

\* v.length !== t.len
WrongLength(v, t) == HostLength(v) # t.len

\* $internalize(v, t) for an array descriptor t.  ($mapArray is handed
\* arrays only: nothing else has the declared length.)
internalizeArray(v, t) ==
    IF HasBackRef(v) THEN assertType(v, t)
    ELSE IF v.tag \in {"null", "undefined"} THEN Throws
    ELSE IF WrongLength(v, t) THEN Throws
    ELSE IF v.tag # "arr" THEN Throws
    ELSE Returns(CArray([i \in DOMAIN v.elems |-> internalizeScalar(v.elems[i], t.elem)]))

ArrayTypes == {DArray(n, e) : n \in 0..MaxArrayLen, e \in {"Int8", "String"}}

\* The host values handed in: null, undefined, a number, the arrays of up
\* to one element more than the longest declared length, and wrappers of
\* compiled arrays.
ArrayHosts ==
    {HNull, HUndefined, HNum(7)}
    \cup {HArr(a) : a \in UNION {[1..n -> {HNum(300), HStr(<<233>>)}] :
                                    n \in 0..(MaxArrayLen + 1)}}
    \cup {HBackRef(DArray(1, "Int8"), CArray(<<CInt(5)>>)),
          HBackRef(DArray(2, "String"), CArray(<<CStr(<<97>>), CStr(<<98>>)>>))}

\* A host value waits to be internalized for an array descriptor.
InitArray ==
    /\ InitCompiler
    /\ minify = FALSE
    /\ hostKind \in ArrayTypes
    /\ hostVal \in ArrayHosts
    /\ goVal = <<>>
    /\ goOut = <<>>
    /\ hostOut = <<>>
    /\ pc = "ready"

\* $internalize(v, t), t an array
InternalizeArray ==
    /\ pc = "ready"
    /\ \E r \in {internalizeArray(hostVal, hostKind)} :
            /\ pc' = IF r.ok THEN "done" ELSE "error"
            /\ goOut' = IF r.ok THEN r.val ELSE goOut
    /\ UNCHANGED <<compilerVars, goVal, hostVal, hostKind, hostOut>>

NextArray == InternalizeArray

SpecArray == InitArray /\ [][NextArray]_vars

\* The host value is null, undefined, or of a length that is not the
\* declared one.
Unfit == hostVal.tag \in {"null", "undefined"} \/ HostLength(hostVal) # hostKind.len

\* The array of the declared length whose i-th element is the i-th host
\* element internalized for the element descriptor.
ElementWise ==
    /\ goOut.tag = "array"
    /\ Len(goOut.elems) = hostKind.len
    /\ \A i \in 1..hostKind.len :
            goOut.elems[i] = internalizeScalar(hostVal.elems[i], hostKind.elem)

\* C17 as stated: $internalize into an array descriptor is a fatal error
\* with no value for every host value that is null, undefined or of a
\* length other than the declared one, and the element-wise array
\* otherwise.
C17_ArrayLength ==
    pc # "ready" =>
        IF Unfit THEN pc = "error" /\ goOut = <<>>
        ELSE pc = "done" /\ ElementWise

\* C17 amended: the same for the host values that carry no back-reference;
\* one that does is answered from its back-reference whatever its length.
C17_ArrayLengthNoBackRef ==
    (pc # "ready" /\ ~HasBackRef(hostVal)) =>
        IF Unfit THEN pc = "error" /\ goOut = <<>>
        ELSE pc = "done" /\ ElementWise

\* An array of the declared length 2 was internalized.
C17_Witness ==
    /\ pc = "done"
    /\ hostKind = DArray(2, "Int8")
    /\ hostVal = HArr(<<HNum(300), HStr(<<233>>)>>)
    /\ goOut = CArray(<<CInt(44), CInt(0)>>)

\* A host array one element too long was refused.
C17_WitnessError ==
    /\ pc = "error"
    /\ hostVal.tag = "arr"
    /\ Len(hostVal.elems) = hostKind.len + 1

---------------------------------------------------------------------------
(* The value bridge: interfaces.  An interface descriptor is the sequence  *)
(* of its method names, the empty interface has none; the nil interface is *)
(* CNil, a value in an interface is a CBox with its dynamic type.          *)

DInterface(methods) == [kind |-> "Interface", methods |-> methods]

\* A named integer type with its method set: the type of a wrapped value.
DNamed(methods) == [kind |-> "Named", methodSet |-> methods]

\* $assertType(v.__internal_object__, t, false) for an interface t: the value
\* in the interface when its type has the methods of t, a panic when not.
assertInterface(v, t) ==
    IF v.typ.kind = "Named" /\ \A i \in DOMAIN t.methods : t.methods[i] \in v.typ.methodSet
    THEN Returns(CBox("Named", v.internal))
    ELSE Throws

\* An interface whose method set is never looked at.
HasMethodsNever(t) == FALSE

\* t.methods.length !== 0
HasMethods(t) == t.methods # <<>>

\* $internalize(v, t) for an interface descriptor t; a host value for the
\* empty interface is dispatched on its constructor.
internalizeInterface(v, t) ==
    IF HasBackRef(v) THEN assertInterface(v, t)
    ELSE IF HasMethods(t) THEN Throws
    ELSE LET r == internalizeSeen(<<>>, v, "Any", 0, NoConversion, MaxStack)
         IN  IF Failed(r.st) THEN Throws ELSE Returns(r.val)

\* $externalize(v, t) for an interface t: null for the nil interface, the
\* host value of a handle, and the value externalized for its dynamic type
\* otherwise.
RECURSIVE externalizeInterface(_)
externalizeInterface(v) ==
    IF v = CNil THEN HNull
    ELSE IF v.typ = "Handle" THEN v.boxed
    ELSE IF v.typ = "SliceAny"
    THEN IF v.boxed = CNil THEN HNull
         ELSE HArr([i \in DOMAIN v.boxed.elems |-> externalizeInterface(v.boxed.elems[i])])
    ELSE IF v.typ = "Named" THEN externalizeScalar(v.boxed, "Int")
    ELSE externalizeScalar(v.boxed, v.typ)

InterfaceTypes ==
    {DInterface(<<>>), DInterface(<<"Error">>), DInterface(<<"Read">>),
     DInterface(<<"Read", "Write">>)}

\* The host values handed in: null, undefined, scalars, arrays of them,
\* and wrappers of compiled values with methods.
InterfaceHosts ==
    {HNull, HUndefined, HNum(300), HStr(<<233>>), HBool(TRUE)}
    \cup {HArr(a) : a \in UNION {[1..n -> {HNull, HUndefined, HNum(300), HStr(<<233>>)}] :
                                    n \in 0..2}}
    \cup {HBackRef(DNamed({"Read"}), CInt(5)),
          HBackRef(DNamed({"Read", "Write"}), CInt(6))}

\* A host value waits to be internalized for an interface descriptor.
InitInterface ==
    /\ InitCompiler
    /\ minify = FALSE
    /\ hostKind \in InterfaceTypes
    /\ hostVal \in InterfaceHosts
    /\ goVal = <<>>
    /\ goOut = <<>>
    /\ hostOut = <<>>
    /\ pc = "ready"

\* $internalize(v, t), t an interface
InternalizeInterface ==
    /\ pc = "ready"
    /\ \E r \in {internalizeInterface(hostVal, hostKind)} :
            /\ pc' = IF r.ok THEN "done" ELSE "error"
            /\ goOut' = IF r.ok THEN r.val ELSE goOut
    /\ UNCHANGED <<compilerVars, goVal, hostVal, hostKind, hostOut>>

\* $externalize of what $internalize returned, for the same interface
ExternalizeInterface ==
    /\ pc = "done"
    /\ hostOut' = externalizeInterface(goOut)
    /\ pc' = "back"
    /\ UNCHANGED <<compilerVars, goVal, hostVal, hostKind, goOut>>

NextInterface == InternalizeInterface \/ ExternalizeInterface

SpecInterface == InitInterface /\ [][NextInterface]_vars

\* C18: $internalize into an interface with methods is a fatal error, with
\* no value, for every host value without a back-reference, null and
\* undefined included; into the empty interface null gives the nil
\* interface and undefined a host handle that wraps undefined, and
\* externalizing these gives null and undefined back.
C18_InterfaceDispatch ==
    /\ (pc # "ready" /\ ~HasBackRef(hostVal) /\ hostKind.methods # <<>>) =>
            pc = "error" /\ goOut = <<>>
    /\ (pc \in {"done", "back"} /\ hostKind.methods = <<>>) =>
            /\ hostVal = HNull => goOut = CNil
            /\ hostVal = HUndefined => goOut = CBox("Handle", HUndefined)
    /\ (pc = "back" /\ hostVal \in {HNull, HUndefined}) => hostOut = hostVal
    /\ (pc = "error" /\ hostKind.methods = <<>>) => hostVal \notin {HNull, HUndefined}

\* undefined went into the empty interface and came back.
C18_Witness ==
    /\ pc = "back"
    /\ hostKind = DInterface(<<>>)
    /\ hostVal = HUndefined
    /\ goOut = CBox("Handle", HUndefined)
    /\ hostOut = HUndefined

\* null was refused for an interface with methods.
C18_WitnessError ==
    /\ pc = "error"
    /\ hostKind = DInterface(<<"Read", "Write">>)
    /\ hostVal = HNull

---------------------------------------------------------------------------
(* The value bridge: the tests of $internalize that come before the kind   *)
(* dispatch.  The position a call ends at tells how far it went: "handle"  *)
(* (returned at the test for *js.Object), "refused" (thrown at the test    *)
(* for js.Object), "asserted" and "panicked" (at the back-reference), and  *)
(* "dispatched" and "error" (after the seen map and the kind dispatch).    *)

\* js.Object, the element type of the handle type.
DObject == [kind |-> "Object"]
DScalar(kind) == [kind |-> kind]

\* Where a call ends that got the result r: at returned with the value,
\* or at thrown with none.
EndsAt(returned, thrown, r) ==
    IF r.ok THEN [at |-> returned, val |-> r.val] ELSE [at |-> thrown, val |-> <<>>]

\* $internalize(v, t): where the call ends, and what it returns.
internalizeTop(v, t) ==
    IF t = DHandle THEN [at |-> "handle", val |-> v]
    ELSE IF t = DObject THEN [at |-> "refused", val |-> <<>>]
    ELSE IF HasBackRef(v)
    THEN EndsAt("asserted", "panicked",
                IF t.kind = "Interface" THEN assertInterface(v, t) ELSE assertType(v, t))
    ELSE EndsAt("dispatched", "error",
                IF t.kind = "Interface" THEN internalizeInterface(v, t)
                ELSE IF t.kind = "Array" THEN internalizeArray(v, t)
                ELSE Returns(internalizeScalar(v, t.kind)))

TopTypes ==
    {DHandle, DObject, DScalar("Int8"), DScalar("String"), DArray(1, "Int8"),
     DInterface(<<>>), DInterface(<<"Read">>)}

\* The host values handed in: wrappers of an int8, of an array and of a
\* value with a method, and values without a back-reference.
TopHosts ==
    {HBackRef(DScalar("Int8"), CInt(5)),
     HBackRef(DArray(1, "Int8"), CArray(<<CInt(5)>>)),
     HBackRef(DNamed({"Read"}), CInt(6))}
    \cup {HNull, HUndefined, HNum(300), HStr(<<233>>), HBool(TRUE)}
    \cup {HArr(a) : a \in UNION {[1..n -> {HNum(300), HStr(<<233>>)}] : n \in 0..2}}

\* A host value waits to be internalized for a descriptor.
InitTop ==
    /\ InitCompiler
    /\ minify = FALSE
    /\ hostKind \in TopTypes
    /\ hostVal \in TopHosts
    /\ goVal = <<>>
    /\ goOut = <<>>
    /\ hostOut = <<>>
    /\ pc = "ready"

\* $internalize(v, t)
InternalizeTop ==
    /\ pc = "ready"
    /\ \E r \in {internalizeTop(hostVal, hostKind)} :
            /\ pc' = r.at
            /\ goOut' = r.val
    /\ UNCHANGED <<compilerVars, goVal, hostVal, hostKind, hostOut>>

NextTop == InternalizeTop

SpecTop == InitTop /\ [][NextTop]_vars

\* The call was answered from the back-reference: it ended at the
\* assertion, before the seen map and the kind dispatch, and what it
\* returned is the compiled value of the back-reference, no new one.
AnsweredFromBackRef ==
    /\ pc \in {"asserted", "panicked"}
    /\ pc = "asserted" =>
            goOut = IF hostKind.kind = "Interface" THEN CBox("Named", hostVal.internal)
                    ELSE hostVal.internal

\* C19 as stated: a host value with a back-reference is answered from the
\* back-reference for every descriptor other than the host handle, and
\* returned as it is for the host handle.
C19_BackRefFirst ==
    (pc # "ready" /\ hostVal.tag = "backref") =>
        IF hostKind = DHandle THEN pc = "handle" /\ goOut = hostVal
        ELSE AnsweredFromBackRef

\* C19 amended: the same for every descriptor other than the host handle
\* and js.Object; for js.Object the call is a fatal error before the
\* back-reference is looked at.
C19_BackRefFirstButObject ==
    (pc # "ready" /\ hostVal.tag = "backref") =>
        IF hostKind = DHandle THEN pc = "handle" /\ goOut = hostVal
        ELSE IF hostKind = DObject THEN pc = "refused" /\ goOut = <<>>
        ELSE AnsweredFromBackRef

\* The wrapper of an array was internalized for the array type.
C19_Witness ==
    /\ pc = "asserted"
    /\ hostKind = DArray(1, "Int8")
    /\ hostVal = HBackRef(DArray(1, "Int8"), CArray(<<CInt(5)>>))
    /\ goOut = CArray(<<CInt(5)>>)

---------------------------------------------------------------------------
(* Selections of fields with a js tag.  A struct field here is [name,      *)
(* jsTag, typ], jsTag being what getJsTag returns for its tag ("" for      *)
(* none); the types are the descriptors of the value bridge, *js.Object    *)
(* being DHandle, and DSelf the pointer to the struct the field is in.     *)

DSelf == [kind |-> "Self"]
SelField(name, jsTag, typ) == [name |-> name, jsTag |-> jsTag, typ |-> typ]

\* typesutil.IsJsObject(ft)
IsJsObject(ft) == ft = DHandle

\* A list of diagnostics that keeps the last one only.
appendErrorLastOnly(list, e) == <<e>>

\* append(fc.pkgCtx.errList, types.Error{...})
appendError(list, e) == Append(list, e)

\* The inner loop of translateSelection for the struct s and the path
\* fields: it follows the first fields down to a *js.Object.  A first
\* field that points to its own struct brings the loop back to s, and the
\* loop never ends.
RECURSIVE searchJsField(_, _)
searchJsField(s, fields) ==
    LET ft == s.fields[1].typ
        path == Append(fields, s.fields[1].name)
        under == IF ft.kind = "Ptr" THEN ft.elem ELSE ft
    IN  IF IsJsObject(ft) THEN [res |-> "found", fields |-> path]
        ELSE IF ft.kind = "Self" THEN [res |-> "loops"]
        ELSE IF under.kind # "Struct" \/ under.fields = <<>> THEN [res |-> "none"]
        ELSE searchJsField(under, path)

\* translateSelection(sel, pos) from the i-th index of sel.Index() on, t
\* being the type reached and fields the path so far: the path and the
\* tag it returns, and the diagnostics it appends.
RECURSIVE translateSelectionFrom(_, _, _, _, _)
translateSelectionFrom(index, i, t, fields, pos) ==
    IF i > Len(index) THEN [res |-> "plain", fields |-> fields, tag |-> "", errs |-> <<>>]
    ELSE LET s == IF t.kind = "Ptr" THEN t.elem ELSE t
             f == s.fields[index[i]]
         IN  IF f.jsTag # ""
             THEN LET r == searchJsField(s, fields)
                  IN  IF r.res = "found"
                      THEN [res |-> "tagged", fields |-> r.fields, tag |-> f.jsTag,
                            errs |-> <<>>]
                      ELSE IF r.res = "loops"
                      THEN [res |-> "loops", fields |-> <<>>, tag |-> "", errs |-> <<>>]
                      ELSE [res |-> "broken", fields |-> <<>>, tag |-> "",
                            errs |-> <<[Pos |-> pos, Field |-> f.name, Soft |-> TRUE]>>]
             ELSE translateSelectionFrom(index, i + 1, f.typ, Append(fields, f.name), pos)

translateSelection(sel, pos) == translateSelectionFrom(sel.Index, 1, sel.Recv, <<>>, pos)

\* The types of the first field: *js.Object, int, structs and pointers of
\* one level, and some deeper ones.
FirstFieldTypes ==
    ChainTypes(1)
    \cup {DSelf, DPtr(DPtr(DHandle)),
          DStruct(<<FirstField(DStruct(<<FirstField(DHandle)>>))>>),
          DPtr(DStruct(<<FirstField(DPtr(DStruct(<<FirstField(DInt)>>)))>>)),
          DPtr(DPtr(DStruct(<<FirstField(DHandle)>>)))}

\* struct { A c; x int `js:"x"` }
Tagged(c) == DStruct(<<SelField("A", "", c), SelField("x", "x", DInt)>>)

\* The selections: of the tagged field x and of the plain field A, on the
\* struct, on a pointer to it and through a struct that embeds it; and of
\* a tagged first field.
Selections ==
    UNION {{[Recv |-> Tagged(c), Index |-> <<2>>],
            [Recv |-> Tagged(c), Index |-> <<1>>],
            [Recv |-> DPtr(Tagged(c)), Index |-> <<2>>],
            [Recv |-> DStruct(<<SelField("S", "", Tagged(c))>>), Index |-> <<1, 2>>],
            [Recv |-> DStruct(<<SelField("y", "y", c)>>), Index |-> <<1>>]} :
                c \in FirstFieldTypes}

Positions == {1, 2}

\* fc.translateSelection(sel, pos); a selection whose loop never ends
\* leaves no state behind.
TranslateSelection ==
    /\ call.nth < MaxCalls
    /\ \E sel \in Selections, pos \in Positions :
        \E r \in {translateSelection(sel, pos)} :
            /\ r.res # "loops"
            /\ errList' = IF r.errs = <<>> THEN errList ELSE appendError(errList, r.errs[1])
            /\ call' = [op |-> "translateSelection", nth |-> call.nth + 1, sel |-> sel,
                        pos |-> pos, res |-> r.res, fields |-> r.fields, tag |-> r.tag,
                        before |-> errList]
    /\ UNCHANGED <<minify, parent, instance, allVars, localVars, objectNames,
                   escapingVars, pkgVars, dceDeps, instanceIDs, anonTypes,
                   anonTypeMap, returnedPkg, requested, named, bridgeVars>>

InitSel == minify = FALSE /\ InitCompiler /\ InitBridgeIdle

NextSel == TranslateSelection

SpecSel == InitSel /\ [][NextSel]_vars

\* The struct the selection ends in.
RECURSIVE SelectedIn(_, _, _)
SelectedIn(t, index, i) ==
    LET s == IF t.kind = "Ptr" THEN t.elem ELSE t
    IN  IF i = Len(index) THEN s ELSE SelectedIn(s.fields[index[i]].typ, index, i + 1)

\* The first-field chain of s does not reach a *js.Object: it ends in a
\* first field that is neither a *js.Object nor a struct or a pointer to
\* a struct, or in a struct with no fields.
RECURSIVE ChainEndsWithoutHandle(_)
ChainEndsWithoutHandle(s) ==
    LET ft == s.fields[1].typ
        under == IF ft.kind = "Ptr" THEN ft.elem ELSE ft
    IN  /\ ft # DHandle
        /\ ft.kind # "Self"
        /\ \/ under.kind # "Struct"
           \/ under.fields = <<>>
           \/ ChainEndsWithoutHandle(under)

\* C20: when translateSelection resolves a field with a js tag and the
\* first-field chain of its struct does not reach a *js.Object, it appends
\* exactly one soft diagnostic to the error list, keeping the earlier
\* ones, and returns an empty path and an empty tag.
C20_SoftDiagnostic ==
    (/\ call.op = "translateSelection"
     /\ LET s == SelectedIn(call.sel.Recv, call.sel.Index, 1)
        IN  /\ s.fields[call.sel.Index[Len(call.sel.Index)]].jsTag # ""
            /\ ChainEndsWithoutHandle(s)) =>
        /\ Len(errList) = Len(call.before) + 1
        /\ SubSeq(errList, 1, Len(call.before)) = call.before
        /\ errList[Len(errList)].Soft
        /\ errList[Len(errList)].Pos = call.pos
        /\ call.fields = <<>>
        /\ call.tag = ""

\* Two broken selections in one run left two diagnostics.
C20_Witness ==
    /\ call.op = "translateSelection"
    /\ call.res = "broken"
    /\ call.sel = [Recv |-> Tagged(DInt), Index |-> <<2>>]
    /\ Len(call.before) = 1
    /\ Len(errList) = 2
    /\ errList[1].Pos # errList[2].Pos

---------------------------------------------------------------------------
(* encodeIdent as a sanitizer: two proposed names are sanitized, and the   *)
(* results are looked at as host identifiers.                              *)

\* The longest proposed name.
MaxIdentLen == 2

\* The bytes the proposed names are made of: A, 1, _, space, '-', '.',
\* '~', '%', '$', '+', and the two bytes of the middle dot.
IdentBytes == {65, 49, 95, 32, 45, 46, 126, 37, 36, 43, 194, 183}

ProposedNames == SeqsUpTo(IdentBytes, MaxIdentLen) \ {<<>>}

\* Two proposed names wait to be sanitized.
InitIdent ==
    /\ InitCompiler
    /\ minify = FALSE
    /\ goVal \in ProposedNames \X ProposedNames
    /\ hostVal = <<>>
    /\ hostKind = "Ident"
    /\ goOut = <<>>
    /\ hostOut = <<>>
    /\ pc = "ready"

\* encodeIdent(name) of the first name
EncodeFirst ==
    /\ pc = "ready"
    /\ goOut' = <<encodeIdent(goVal[1])>>
    /\ pc' = "first"
    /\ UNCHANGED <<compilerVars, goVal, hostVal, hostKind, hostOut>>

\* encodeIdent(name) of the second name
EncodeSecond ==
    /\ pc = "first"
    /\ goOut' = Append(goOut, encodeIdent(goVal[2]))
    /\ pc' = "done"
    /\ UNCHANGED <<compilerVars, goVal, hostVal, hostKind, hostOut>>

NextIdent == EncodeFirst \/ EncodeSecond

SpecIdent == InitIdent /\ [][NextIdent]_vars

\* The byte at i of str is part of a host identifier: a letter, a digit,
\* '_', '$', or one of the two bytes of a middle dot.
IdentByteAt(str, i) ==
    \/ IsAlnum(str[i])
    \/ str[i] \in {95, 36}
    \/ str[i] = 194 /\ i < Len(str) /\ str[i + 1] = 183
    \/ str[i] = 183 /\ i > 1 /\ str[i - 1] = 194

\* str is made of letters, digits, '_', '$' and middle dots only.
IdentCharsOnly(str) == \A i \in DOMAIN str : IdentByteAt(str, i)

\* Different proposed names were sanitized to different strings.
C21_SanitizeInjective ==
    (pc = "done" /\ goVal[1] # goVal[2]) => goOut[1] # goOut[2]

\* C21: for every non-empty proposed name the sanitized name contains
\* only letters, digits, '_', '$' and the middle dot, and two different
\* proposed names never sanitize to the same string.
C21_ValidIdentifier ==
    /\ pc \in {"first", "done"} => IdentCharsOnly(goOut[1])
    /\ pc = "done" => IdentCharsOnly(goOut[2])
    /\ (pc = "done" /\ goVal[1] # goVal[2]) => goOut[1] # goOut[2]

---------------------------------------------------------------------------
(* The value bridge: the arguments each call of $internalize gets.  A      *)
(* call is a frame: the descriptor, how deep below the top-level call it   *)
(* is, and what arrived in the parameters recv, seen and makeWrapper.  A   *)
(* call written with three arguments, $internalize(x, t, makeWrapper),     *)
(* binds its third argument to the parameter recv and leaves seen and      *)
(* makeWrapper undefined.                                                  *)

\* Top-level calls of one run.
MaxTops == 2

\* A host function.
HFunc == [tag |-> "func"]

\* type S struct { Val int }
\* type Outer struct { Next *S; Val int }
FrameTable ==
    [Int |-> [kind |-> "Int"],
     String |-> [kind |-> "String"],
     ArrInt |-> [kind |-> "Array", elem |-> "Int"],
     S |-> [kind |-> "Struct", fields |-> <<Field("Val", "Int")>>],
     PtrS |-> [kind |-> "Ptr", elem |-> "S"],
     SliceS |-> [kind |-> "Slice", elem |-> "S"],
     Outer |-> [kind |-> "Struct",
                fields |-> <<Field("Next", "PtrS"), Field("Val", "Int")>>],
     MapInt |-> [kind |-> "Map", key |-> "String", elem |-> "Int"],
     MapAny |-> [kind |-> "Map", key |-> "String", elem |-> "Any"],
     Any |-> [kind |-> "Interface"],
     SliceAny |-> [kind |-> "Slice", elem |-> "Any"],
     FuncInt |-> [kind |-> "Func", params |-> <<>>, results |-> <<"Int">>]]

\* What a call gets that is written $internalize(x, t, makeWrapper).
PassedThree(mw) == [recv |-> mw, seen |-> 0, mw |-> "undefined"]

\* What a call gets that is written $internalize(x, t, recv, seen, makeWrapper).
PassedFive(recv, seen, mw) == [recv |-> recv, seen |-> seen, mw |-> mw]

\* The calls made so far: the frames, and the number of seen maps made.
NoFrames == [frames |-> <<>>, nseen |-> 0]

\* The state once the call of depth at top-level call top has passed
\* `if (seen === undefined) { seen = new Map(); }`.
Entered(top, depth, t, via, a, st) ==
    [frames |-> Append(st.frames,
                    [top |-> top, depth |-> depth, t |-> t, via |-> via,
                     recv |-> a.recv, given |-> a.seen, mw |-> a.mw,
                     seen |-> IF a.seen = 0 THEN st.nseen + 1 ELSE a.seen,
                     \* seen.get(t).set(v, m) comes before the loop in the map case only
                     recordedFirst |-> FrameTable[t].kind = "Map"]),
     nseen |-> IF a.seen = 0 THEN st.nseen + 1 ELSE st.nseen]

\* The key of a host object as a host string.
KeyString(key) == HStr(IF key = "Val" THEN <<86, 97, 108>> ELSE <<78, 101, 120, 116>>)

\* $internalize(v, t, recv, seen, makeWrapper), a = [recv, seen, mw], for a
\* host value v that fits t: the frames after the call.  frameKind is the
\* kind dispatch, with own the frame of the call itself; frameElems,
\* frameFields and frameEntries are the loops.
RECURSIVE internalizeFrames(_, _, _, _, _, _, _)
RECURSIVE frameKind(_, _, _, _, _, _)
RECURSIVE frameElems(_, _, _, _, _, _, _)
RECURSIVE frameFields(_, _, _, _, _, _, _)
RECURSIVE frameEntries(_, _, _, _, _, _, _, _)

internalizeFrames(top, depth, v, t, via, a, st) ==
    frameKind(top, depth, v, t, a, Entered(top, depth, t, via, a, st))

frameKind(top, depth, v, t, a, st) ==
    LET d == FrameTable[t]
        own == st.frames[Len(st.frames)]
    IN  IF d.kind \in {"Array", "Slice"}
        THEN frameElems(top, depth + 1, v.elems, 1, d.elem, PassedThree(own.mw), st)
        ELSE IF d.kind = "Ptr"
        THEN internalizeFrames(top, depth + 1, v, d.elem, "target", PassedThree(own.mw), st)
        ELSE IF d.kind = "Struct"
        THEN frameFields(top, depth + 1, v, d.fields, 1,
                         PassedFive(own.recv, own.seen, own.mw), st)
        ELSE IF d.kind = "Map"
        THEN frameEntries(top, depth + 1, v, SortedKeys(DOMAIN v.props), 1, d,
                          PassedFive(own.recv, own.seen, own.mw), st)
        ELSE IF d.kind = "Interface"
        THEN IF v.tag = "arr"
             THEN internalizeFrames(top, depth + 1, v, "SliceAny", "dynamic",
                                    PassedThree(own.mw), st)
             ELSE IF v.tag = "str"
             THEN internalizeFrames(top, depth + 1, v, "String", "dynamic",
                                    PassedThree(own.mw), st)
             ELSE IF v.tag = "obj"
             THEN internalizeFrames(top, depth + 1, v, "MapAny", "dynamic",
                                    PassedFive(own.recv, own.seen, own.mw), st)
             ELSE st
        ELSE st

frameElems(top, depth, elems, i, t, a, st) ==
    IF i > Len(elems) THEN st
    ELSE frameElems(top, depth, elems, i + 1, t, a,
                    internalizeFrames(top, depth, elems[i], t, "element", a, st))

frameFields(top, depth, v, fields, i, a, st) ==
    IF i > Len(fields) THEN st
    ELSE frameFields(top, depth, v, fields, i + 1, a,
                     internalizeFrames(top, depth, GetProp(v, fields[i].name),
                                       fields[i].typ, "field", a, st))

frameEntries(top, depth, v, keys, i, d, a, st) ==
    IF i > Len(keys) THEN st
    ELSE frameEntries(top, depth, v, keys, i + 1, d, a,
            internalizeFrames(top, depth, v.props[keys[i]], d.elem, "value", a,
                internalizeFrames(top, depth, KeyString(keys[i]), d.key, "key", a, st)))

\* The object {Val: 7}, and the host values that fit each descriptor.
ValObject == HObj([k \in {"Val"} |-> HNum(7)])

FrameHosts ==
    [Int |-> {HNum(7)},
     ArrInt |-> {HArr(<<HNum(7)>>)},
     S |-> {ValObject},
     PtrS |-> {ValObject},
     SliceS |-> {HArr(<<>>), HArr(<<ValObject>>), HArr(<<ValObject, ValObject>>)},
     Outer |-> {HObj([k \in {"Val", "Next"} |-> IF k = "Val" THEN HNum(7) ELSE ValObject])},
     MapInt |-> {HObj(<<>>), ValObject},
     Any |-> {HNum(7), HStr(<<65>>), HArr(<<HNum(7)>>), HArr(<<ValObject>>), ValObject},
     FuncInt |-> {HFunc}]

\* What a top-level call hands over in recv and makeWrapper.
Receivers == {"undefined", "recv"}
Wrappers == {"undefined", "wrapper"}

\* A host value is handed to a top-level call.
Handed ==
    \E t \in DOMAIN FrameHosts, r \in Receivers, w \in Wrappers :
        /\ hostKind' = [t |-> t, recv |-> r, mw |-> w]
        /\ hostVal' \in FrameHosts[t]

\* No call was made yet.
InitFrames ==
    /\ InitCompiler
    /\ minify = FALSE
    /\ \E t \in DOMAIN FrameHosts, r \in Receivers, w \in Wrappers :
            /\ hostKind = [t |-> t, recv |-> r, mw |-> w]
            /\ hostVal \in FrameHosts[t]
    /\ goVal = 0
    /\ goOut = NoFrames
    /\ hostOut = <<>>
    /\ pc = "ready"

\* a top-level $internalize(v, t, recv, undefined, makeWrapper)
InternalizeFrames ==
    /\ pc = "ready"
    /\ goVal' = goVal + 1
    /\ goOut' = internalizeFrames(goVal + 1, 1, hostVal, hostKind.t, "top",
                                  PassedFive(hostKind.recv, 0, hostKind.mw), goOut)
    /\ pc' = IF FrameTable[hostKind.t].kind = "Func" THEN "wrapped" ELSE "done"
    /\ UNCHANGED <<compilerVars, hostVal, hostKind, hostOut>>

\* The function $internalize returned for a func descriptor is called:
\* its result is internalized.
InvokeInternalized ==
    /\ pc = "wrapped"
    /\ goOut' = internalizeFrames(goVal, 2, HNum(7), FrameTable[hostKind.t].results[1],
                                  "result", PassedThree(hostKind.mw), goOut)
    /\ pc' = "done"
    /\ UNCHANGED <<compilerVars, goVal, hostVal, hostKind, hostOut>>

\* The next host value arrives.
NextTopLevel ==
    /\ pc = "done"
    /\ goVal < MaxTops
    /\ Handed
    /\ pc' = "ready"
    /\ UNCHANGED <<compilerVars, goVal, goOut, hostOut>>

NextFrames == InternalizeFrames \/ InvokeInternalized \/ NextTopLevel

SpecFrames == InitFrames /\ [][NextFrames]_vars

\* The frame of the top-level call a frame belongs to.
TopFrame(f) ==
    CHOOSE g \in Range(goOut.frames) : g.top = f.top /\ g.depth = 1

\* The frame is of a call that converts components.
HasComponents(f) ==
    \E g \in Range(goOut.frames) : g.top = f.top /\ g.depth > f.depth

\* C22: every recursive $internalize call made while one top-level host
\* value is converted gets the seen-set, the receiver and the wrapper
\* factory of the enclosing call in their own parameter positions; every
\* composite value under construction is recorded in the seen-set before
\* its components are converted; and two top-level calls never share a
\* seen-set.
C22_ParametersHandedOn ==
    pc = "done" =>
        \A f \in Range(goOut.frames) :
            /\ f.depth > 1 =>
                    /\ f.recv = TopFrame(f).recv
                    /\ f.given = TopFrame(f).seen
                    /\ f.mw = TopFrame(f).mw
            /\ (FrameTable[f.t].kind \in {"Array", "Slice", "Struct", "Map"}
                    /\ HasComponents(f)) => f.recordedFirst
            /\ \A g \in Range(goOut.frames) : g.top # f.top => g.seen # f.seen

\* The calls that are written with five arguments hand the three
\* parameters on, and two top-level calls never share a seen-set.
C22_FiveArgumentCalls ==
    pc = "done" =>
        \A f \in Range(goOut.frames) :
            /\ f.via \in {"field", "key", "value"} =>
                    \E g \in Range(goOut.frames) :
                        /\ g.top = f.top /\ g.depth = f.depth - 1
                        /\ f.recv = g.recv /\ f.given = g.seen /\ f.mw = g.mw
            /\ \A g \in Range(goOut.frames) : g.top # f.top => g.seen # f.seen

---------------------------------------------------------------------------
(* Claims about the counts a module-level allocation writes above the      *)
(* allocating context.                                                     *)

\* C23: a module-level allocation never lowers the count an ancestor of
\* the allocating context holds for the name, and no allocation returns a
\* name the allocating context has already returned.
C23_AncestorCountsKept ==
    [][(call'.op = "newVariable" /\ call'.nth # call.nth) =>
        /\ call'.pkgLevel =>
                \A c \in Contexts :
                    IsSelfOrAbove(c, parent[call'.fc]) =>
                        Get(allVars'[c], call'.base) >= Get(allVars[c], call'.base)
        /\ ~call'.live
    ]_vars

---------------------------------------------------------------------------
(* translateSelection step by step: one step of the loop over sel.Index()  *)
(* or of the inner loop down the first fields at a time.  goVal holds the  *)
(* locals of the call (the selection, pos, the place i in sel.Index(), the *)
(* type t reached and the struct s of the inner loop), goOut the path      *)
(* fields, hostOut what the call returned.                                 *)

\* The longest path the model writes down; the loop goes on beyond it.
MaxPath == 4

\* append(fields, name), written down up to MaxPath names.
appendField(fields, name) ==
    IF Len(fields) < MaxPath THEN Append(fields, name) ELSE fields

\* A call of translateSelection has started.
InitWalk ==
    /\ minify = FALSE
    /\ InitCompiler
    /\ \E sel \in Selections, pos \in Positions :
            goVal = [sel |-> sel, pos |-> pos, i |-> 1, t |-> sel.Recv, s |-> DInt,
                     jsTag |-> "", jsFieldName |-> ""]
    /\ goOut = <<>>
    /\ hostVal = <<>>
    /\ hostKind = "Selection"
    /\ hostOut = <<>>
    /\ pc = "outer"

\* One turn of `for _, index := range sel.Index()`, up to the inner loop.
OuterStep ==
    /\ pc = "outer"
    /\ IF goVal.i > Len(goVal.sel.Index)
       THEN /\ hostOut' = [fields |-> goOut, tag |-> ""]
            /\ pc' = "returned"
            /\ UNCHANGED <<goVal, goOut>>
       ELSE \E s \in {IF goVal.t.kind = "Ptr" THEN goVal.t.elem ELSE goVal.t} :
            \E f \in {s.fields[goVal.sel.Index[goVal.i]]} :
                IF f.jsTag # ""
                THEN /\ goVal' = [goVal EXCEPT !.s = s, !.jsTag = f.jsTag,
                                               !.jsFieldName = f.name]
                     /\ pc' = "inner"
                     /\ UNCHANGED <<goOut, hostOut>>
                ELSE /\ goOut' = appendField(goOut, f.name)
                     /\ goVal' = [goVal EXCEPT !.t = f.typ, !.i = @ + 1]
                     /\ UNCHANGED <<pc, hostOut>>
    /\ UNCHANGED <<compilerVars, hostVal, hostKind>>

\* One turn of the inner `for { ... }`.
InnerStep ==
    /\ pc = "inner"
    /\ \E ft \in {goVal.s.fields[1].typ} :
       \E under \in {IF ft.kind = "Self" THEN goVal.s
                     ELSE IF ft.kind = "Ptr" THEN ft.elem ELSE ft} :
            /\ goOut' = appendField(goOut, goVal.s.fields[1].name)
            /\ IF IsJsObject(ft)
               THEN /\ hostOut' = [fields |-> goOut', tag |-> goVal.jsTag]
                    /\ pc' = "returned"
                    /\ UNCHANGED <<goVal, errList>>
               ELSE IF under.kind # "Struct" \/ under.fields = <<>>
               THEN /\ errList' = appendError(errList,
                                      [Pos |-> goVal.pos, Field |-> goVal.jsFieldName,
                                       Soft |-> TRUE])
                    /\ hostOut' = [fields |-> <<>>, tag |-> ""]
                    /\ pc' = "returned"
                    /\ UNCHANGED goVal
               ELSE /\ goVal' = [goVal EXCEPT !.s = under]
                    /\ UNCHANGED <<pc, hostOut, errList>>
    /\ UNCHANGED <<minify, parent, instance, allVars, localVars, objectNames,
                   escapingVars, pkgVars, dceDeps, instanceIDs, anonTypes,
                   anonTypeMap, returnedPkg, requested, named, call, hostVal, hostKind>>

NextWalk == OuterStep \/ InnerStep

\* The call runs on as long as it has not returned.
SpecWalk == InitWalk /\ [][NextWalk]_vars /\ WF_vars(NextWalk)

\* C24: translateSelection terminates for every selection on every struct
\* type, also when the first field of a struct is a pointer to that same
\* struct type: the call returns, at a host-handle field or with a soft
\* diagnostic.
C24_SelectionReturns == <>(pc = "returned")

\* The first fields lead back to no struct already walked through.
RECURSIVE NoSelfBelow(_)
NoSelfBelow(t) ==
    IF t.kind = "Self" THEN FALSE
    ELSE IF t.kind = "Ptr" THEN NoSelfBelow(t.elem)
    ELSE IF t.kind = "Struct" /\ t.fields # <<>>
    THEN \A k \in DOMAIN t.fields : NoSelfBelow(t.fields[k].typ)
    ELSE TRUE

\* The call returns when no first field points to its own struct.
C24_ReturnsWithoutSelf == NoSelfBelow(goVal.sel.Recv) ~> pc = "returned"

---------------------------------------------------------------------------
(* Skipping externalization.  The values are the host's own: a compiled    *)
(* boolean or number of up to 32 bits is a host boolean or number, a       *)
(* compiled string a host string of bytes, a compiled array a host array,  *)
(* a 64-bit integer an object of two halves, a slice an object with its    *)
(* backing array, offset and length.                                       *)

\* The longest backing array.
MaxBacking == 2

J64(high, low) == [tag |-> "int64", high |-> high, low |-> low]
JSlice(array, offset, length) ==
    [tag |-> "slice", array |-> array, offset |-> offset, length |-> length]
\* v.constructor.nil
JSliceNil == [tag |-> "slicenil"]

DArrayOf(elem) == [kind |-> "Array", elem |-> elem]
DSliceOf(elem) == [kind |-> "Slice", elem |-> elem]

\* The kinds $needsExternalization and $externalize pass through.
PassKinds ==
    {"Bool", "Int", "Int8", "Int16", "Int32", "Uint", "Uint8", "Uint16", "Uint32",
     "Uintptr", "Float32", "Float64"}

\* $needsExternalization(t)
needsExternalization(t) ==
    IF t.kind \in PassKinds THEN FALSE ELSE t # DHandle

\* $flatten64(v), for a v whose high half is 0.
flatten64(v) == HNum(v.high * 65536 * 65536 + v.low)

\* $sliceToNativeArray(v): the elements of the slice as a host array.
sliceToNativeArray(v) == HArr(SubSeq(v.array, v.offset + 1, v.offset + v.length))

\* $externalize(v, t) for the handle type, the basic kinds, arrays and
\* slices; mapArrayExternalize is $mapArray(a, e => $externalize(e, t)).
RECURSIVE externalizeValue(_, _)
RECURSIVE mapArrayExternalize(_, _)

externalizeValue(v, t) ==
    IF t = DHandle THEN Returns(v)
    ELSE IF t.kind \in PassKinds THEN Returns(v)
    ELSE IF t.kind \in {"Int64", "Uint64"} THEN Returns(flatten64(v))
    ELSE IF t.kind = "Array"
    THEN IF needsExternalization(t.elem) THEN mapArrayExternalize(v, t.elem)
         ELSE Returns(v)
    ELSE IF t.kind = "Slice"
    THEN IF v = JSliceNil THEN Returns(HNull)
         ELSE IF needsExternalization(t.elem)
         THEN mapArrayExternalize(sliceToNativeArray(v), t.elem)
         ELSE Returns(sliceToNativeArray(v))
    ELSE IF t.kind = "String" THEN Returns(HStr(externalizeString(v.text)))
    ELSE Throws

mapArrayExternalize(a, t) ==
    IF \E i \in DOMAIN a.elems : ~externalizeValue(a.elems[i], t).ok THEN Throws
    ELSE Returns(HArr([i \in DOMAIN a.elems |-> externalizeValue(a.elems[i], t).val]))

\* The kinds of *types.Basic, and what types.Basic.Info says of them.
BasicKinds ==
    PassKinds
    \cup {"Int64", "Uint64", "Complex64", "Complex128", "String", "UnsafePointer",
          "UntypedBool", "UntypedInt", "UntypedRune", "UntypedFloat", "UntypedComplex",
          "UntypedString", "UntypedNil"}

isComplex(u) == u \in {"Complex64", "Complex128", "UntypedComplex"}

isNumeric(u) ==
    \/ u \in PassKinds \ {"Bool"}
    \/ u \in {"Int64", "Uint64", "UntypedInt", "UntypedRune", "UntypedFloat"}
    \/ isComplex(u)

\* No kind taken for a 64-bit one.
is64BitNever(u) == FALSE

is64Bit(u) == u \in {"Int64", "Uint64"}

\* fc.externalize(s, t): whether the expression s is emitted as it is, as
\* null, or inside a call of $externalize.
externalize(t) ==
    IF IsJsObject(t) THEN "unchanged"
    ELSE IF t.kind \in BasicKinds /\ isNumeric(t.kind) /\ ~is64Bit(t.kind) /\ ~isComplex(t.kind)
    THEN "unchanged"
    ELSE IF t.kind = "UntypedNil" THEN "null"
    ELSE "call"

\* The descriptor the type of an expression has at run time: an untyped
\* constant has its default type.
RuntimeType(t) ==
    IF t.kind = "UntypedBool" THEN DScalar("Bool")
    ELSE IF t.kind = "UntypedInt" THEN DScalar("Int")
    ELSE IF t.kind = "UntypedRune" THEN DScalar("Int32")
    ELSE IF t.kind = "UntypedFloat" THEN DScalar("Float64")
    ELSE IF t.kind = "UntypedComplex" THEN DScalar("Complex128")
    ELSE IF t.kind = "UntypedString" THEN DScalar("String")
    ELSE t

\* The types: the basic kinds, the handle type, and arrays and slices of
\* some of them, and of arrays.
SkipElems ==
    {DScalar("Int"), DScalar("Bool"), DScalar("Float64"), DScalar("Int64"),
     DScalar("String"), DScalar("Complex128"), DHandle}
SkipTypes ==
    {DScalar(k) : k \in BasicKinds} \cup {DHandle}
    \cup {DArrayOf(e) : e \in SkipElems} \cup {DSliceOf(e) : e \in SkipElems}
    \cup {DArrayOf(DArrayOf(DScalar("Int"))), DSliceOf(DArrayOf(DScalar("Int64")))}

\* The values of a type.
RECURSIVE SkipValues(_)
SkipValues(t) ==
    IF t = DHandle THEN {HNull, HNum(7), HStr(<<65>>), HArr(<<HNum(7)>>)}
    ELSE IF t.kind \in {"Bool", "UntypedBool"} THEN {HBool(FALSE), HBool(TRUE)}
    ELSE IF t.kind \in {"Int64", "Uint64"} THEN {J64(0, 0), J64(0, 5)}
    ELSE IF t.kind \in {"String", "UntypedString"} THEN {HStr(<<65>>), HStr(<<195, 169>>)}
    ELSE IF t.kind = "UntypedNil" THEN {HNull}
    ELSE IF t.kind = "Array"
    THEN {HArr(a) : a \in UNION {[1..n -> SkipValues(t.elem)] : n \in 0..MaxBacking}}
    ELSE IF t.kind = "Slice"
    THEN {JSliceNil}
         \cup {JSlice(a, o, n) :
                 a \in UNION {[1..m -> SkipValues(t.elem)] : m \in 1..MaxBacking},
                 o \in 0..1, n \in 0..MaxBacking}
    ELSE {HNum(0), HNum(7)}

\* Whatever may be handed to $externalize for a type it does not look at.
AnyValues ==
    UNION {SkipValues(t) : t \in {DHandle, DScalar("Bool"), DScalar("Int64"),
                                  DArrayOf(DScalar("Int")), DSliceOf(DScalar("Int"))}}

\* An expression of type hostKind with the value goVal waits to be
\* handed to the host.
InitSkip ==
    /\ InitCompiler
    /\ minify = FALSE
    /\ hostKind \in SkipTypes
    /\ goVal \in (IF needsExternalization(RuntimeType(hostKind))
                  THEN {v \in SkipValues(hostKind) :
                            v.tag = "slice" => v.offset + v.length <= Len(v.array)}
                  ELSE {v \in AnyValues :
                            v.tag = "slice" => v.offset + v.length <= Len(v.array)})
    /\ hostVal = <<>>
    /\ goOut = <<>>
    /\ hostOut = <<>>
    /\ pc = "ready"

\* fc.externalize(s, t), at compile time
EmitExternalize ==
    /\ pc = "ready"
    /\ goOut' = externalize(hostKind)
    /\ pc' = "emitted"
    /\ UNCHANGED <<compilerVars, goVal, hostVal, hostKind, hostOut>>

\* $externalize(v, t), at run time; the expression null is null.
ExternalizeValue ==
    /\ pc = "emitted"
    /\ hostOut' = IF goOut = "null" THEN Returns(HNull)
                  ELSE externalizeValue(goVal, RuntimeType(hostKind))
    /\ pc' = "done"
    /\ UNCHANGED <<compilerVars, goVal, hostVal, hostKind, goOut>>

NextSkip == EmitExternalize \/ ExternalizeValue

SpecSkip == InitSkip /\ [][NextSkip]_vars

\* The elements of the array or of the slice, each converted on its own.
EachElement ==
    LET t == RuntimeType(hostKind)
        a == IF t.kind = "Slice" THEN sliceToNativeArray(goVal) ELSE goVal
    IN  HArr([i \in DOMAIN a.elems |-> externalizeValue(a.elems[i], t.elem).val])

\* C25: whenever $needsExternalization(t) is false, $externalize(v, t)
\* returns v itself for every value v; an array or a slice whose elements
\* need no externalization, passed through, is what converting each
\* element gives; and whenever fc.externalize emits the expression
\* unchanged, $externalize for that type returns its argument.
C25_SkipIsSound ==
    pc = "done" =>
        /\ ~needsExternalization(RuntimeType(hostKind)) => hostOut = Returns(goVal)
        /\ (/\ hostKind.kind \in {"Array", "Slice"}
            /\ goVal # JSliceNil
            /\ ~needsExternalization(hostKind.elem)) => hostOut = Returns(EachElement)
        /\ goOut = "unchanged" => hostOut = Returns(goVal)

\* A slice of one int at offset 1 of its backing array was passed
\* through as the host array of that one element.
C25_Witness ==
    /\ pc = "done"
    /\ hostKind = DSliceOf(DScalar("Int"))
    /\ goVal = JSlice(<<HNum(0), HNum(7)>>, 1, 1)
    /\ hostOut = Returns(HArr(<<HNum(7)>>))
    /\ goOut = "call"

---------------------------------------------------------------------------
(* The memo of $externalizeFunction: v.$externalizeWrapper.  A wrapper is  *)
(* a closure over the v, t, passThis and makeWrapper of the call that made *)
(* it.  goVal holds the memo of each function, hostVal the wrappers made,  *)
(* goOut how often each memo was written and what the first call of each   *)
(* function supplied.                                                      *)

\* The functions externalized, and what the calls supply.
MemoFuncs == {"f", "h"}
MemoTypes == {"unary", "void"}
Factories == {"undefined", "wrapper"}
\* What the host calls a wrapper on, and with.
Receiver == "object"
MemoArgs == {<<>>, <<HNum(300), HStr(<<233>>)>>}

\* A wrapper that hands on this whatever passThis says.
wrapperReceiverThis(passThis, this) == this

\* passThis ? this : undefined
wrapperReceiver(passThis, this) == IF passThis THEN this ELSE "undefined"

\* No function has a wrapper.
InitMemo ==
    /\ InitCompiler
    /\ minify = FALSE
    /\ goVal = [fn \in MemoFuncs |-> [wrapper |-> 0]]
    /\ hostVal = <<>>
    /\ hostKind = "Func"
    /\ goOut = [fn \in MemoFuncs |-> [writes |-> 0, first |-> <<>>]]
    /\ hostOut = <<>>
    /\ pc = [op |-> "none"]

\* $externalizeFunction(v, t, passThis, makeWrapper)
ExternalizeFunctionWith ==
    \E fn \in MemoFuncs \cup {NilFunc}, t \in MemoTypes, passThis \in BOOLEAN,
       makeWrapper \in Factories :
        /\ IF fn = NilFunc
           THEN /\ hostOut' = HNull
                /\ pc' = [op |-> "externalize", fn |-> fn, memo |-> goVal,
                          wrappers |-> hostVal]
                /\ UNCHANGED <<goVal, hostVal, goOut>>
           ELSE \E make \in {NeedsWrapper(goVal[fn])} :
                    /\ hostVal' = IF make
                                  THEN Append(hostVal,
                                           [v |-> fn, t |-> t, passThis |-> passThis,
                                            makeWrapper |-> makeWrapper])
                                  ELSE hostVal
                    /\ goVal' = IF make
                                THEN [goVal EXCEPT ![fn].wrapper = Len(hostVal) + 1]
                                ELSE goVal
                    /\ goOut' = IF make
                                THEN [goOut EXCEPT ![fn] =
                                        [writes |-> @.writes + 1,
                                         first |-> IF @.writes = 0
                                                   THEN [wrapper |-> Len(hostVal) + 1,
                                                         t |-> t, passThis |-> passThis,
                                                         makeWrapper |-> makeWrapper]
                                                   ELSE @.first]]
                                ELSE goOut
                    /\ hostOut' = [tag |-> "wrapper", id |-> goVal'[fn].wrapper]
                    /\ pc' = [op |-> "externalize", fn |-> fn, t |-> t,
                              passThis |-> passThis, makeWrapper |-> makeWrapper]
        /\ UNCHANGED <<compilerVars, hostKind>>

\* the host calls the wrapper w as a method of Receiver
InvokeMemoized ==
    \E w \in DOMAIN hostVal, arguments \in MemoArgs :
        /\ pc' = [op |-> "invoke", w |-> w, arguments |-> arguments,
                  \* $internalize(arguments[i], t.params[i], makeWrapper)
                  args |-> wrapperArgs(FuncTypes[hostVal[w].t], arguments, 1, <<>>),
                  makeWrapper |-> hostVal[w].makeWrapper,
                  \* v.apply(passThis ? this : undefined, args)
                  applied |-> hostVal[w].v,
                  recv |-> wrapperReceiver(hostVal[w].passThis, Receiver)]
        /\ hostOut' = wrapperResult(FuncTypes[hostVal[w].t],
                                    Apply(FuncTypes[hostVal[w].t], pc'.args))
        /\ UNCHANGED <<compilerVars, goVal, hostVal, hostKind, goOut>>

NextMemo == ExternalizeFunctionWith \/ InvokeMemoized

SpecMemo == InitMemo /\ [][NextMemo]_vars

\* C26: the memo of a function value is written at most once; every
\* externalization of the function returns the wrapper of the first; the
\* wrapper uses the descriptor, the this-passing flag and the wrapper
\* factory of the first call whatever later calls supply; externalizing
\* the nil function value returns null and writes no memo.
C26_MemoWrittenOnce ==
    /\ \A fn \in MemoFuncs : goOut[fn].writes <= 1
    /\ (pc.op = "externalize" /\ pc.fn # NilFunc) =>
            hostOut = [tag |-> "wrapper", id |-> goOut[pc.fn].first.wrapper]
    /\ (pc.op = "externalize" /\ pc.fn = NilFunc) =>
            hostOut = HNull /\ goVal = pc.memo /\ hostVal = pc.wrappers
    /\ pc.op = "invoke" =>
            LET first == goOut[pc.applied].first
            IN  /\ first.wrapper = pc.w
                /\ pc.args = [i \in DOMAIN FuncTypes[first.t].params |->
                                internalizeScalar(Argument(pc.arguments, i),
                                                  FuncTypes[first.t].params[i])]
                /\ pc.makeWrapper = first.makeWrapper
                /\ pc.recv = IF first.passThis THEN Receiver ELSE "undefined"

\* f was externalized first as a void function without this, then again
\* with another descriptor, with this and with a factory; the wrapper of
\* the first call came back.
C26_Witness ==
    /\ pc.op = "externalize"
    /\ pc.fn = "f"
    /\ pc.t = "unary" /\ pc.passThis /\ pc.makeWrapper = "wrapper"
    /\ goOut["f"].first.t = "void"
    /\ ~goOut["f"].first.passThis
    /\ goOut["f"].first.makeWrapper = "undefined"
    /\ hostOut = [tag |-> "wrapper", id |-> goOut["f"].first.wrapper]
    /\ goVal["h"].wrapper # 0

=============================================================================
